---------------------------- MODULE Spec2Model ----------------------------
(***************************************************************************)
(* A model of the LISFLOOD post-processing aggregator:                     *)
(*   aggregator/temporal_aggregator.py  (spatial and temporal reducers,    *)
(*                                       the two aggregators)              *)
(*   __main__.py                        (process_variable, main)           *)
(* Python strings that the code inspects character by character (method    *)
(* names, frequency codes, variable names) are sequences of one-character  *)
(* strings.  Numbers are exact rationals [num, den].  A time axis is       *)
(* regular and is kept as [code, first, n]: the spacing, the first stamp   *)
(* in hours since 1970-01-01T00:00 and the number of stamps.               *)
(***************************************************************************)
EXTENDS Integers, Sequences, FiniteSets, TLC

VARIABLES
    \* ---- one call of a function of temporal_aggregator.py
    args,         \* the arguments of the call
    out,          \* the outcome of the call once made
    apc,          \* "ready" before the call, the callee's name after it
    \* ---- one run of __main__.py
    cfg,          \* config_for_workers and the dispatch parameters of main
    native,       \* what load_lisflood_variable_data returns for each task's file
    fs,           \* the output tree: path -> content
    pc,           \* where each task's process_variable stands
    loc,          \* the locals of each task's process_variable
    wlog,         \* per task, the paths it has written, in order
    mpc,          \* where main stands
    made          \* the directories main has created

aggVars == <<args, out, apc>>
runVars == <<cfg, native, fs, pc, loc, wlog, mpc, made>>
vars    == <<args, out, apc, cfg, native, fs, pc, loc, wlog, mpc, made>>

-----------------------------------------------------------------------------
(* Python str: strip(), lower(), upper(), startswith()                      *)
(* (Values that are used more than once are passed as parameters of a       *)
(* helper operator rather than named in a LET.)                             *)

LowerAlpha == <<"a","b","c","d","e","f","g","h","i","j","k","l","m",
                "n","o","p","q","r","s","t","u","v","w","x","y","z">>
UpperAlpha == <<"A","B","C","D","E","F","G","H","I","J","K","L","M",
                "N","O","P","Q","R","S","T","U","V","W","X","Y","Z">>
Whitespace == {" ", "\t", "\n"}

\* the image of character c under the case table from -> to
MapChar(c, from, to) ==
    IF \E i \in 1..26 : from[i] = c THEN to[CHOOSE i \in 1..26 : from[i] = c] ELSE c

Lower(s) == [i \in 1..Len(s) |-> MapChar(s[i], UpperAlpha, LowerAlpha)]
Upper(s) == [i \in 1..Len(s) |-> MapChar(s[i], LowerAlpha, UpperAlpha)]

SetMin(I) == CHOOSE i \in I : \A j \in I : i <= j
SetMax(I) == CHOOSE i \in I : \A j \in I : j <= i

StripTo(s, keep) == IF keep = {} THEN <<>> ELSE SubSeq(s, SetMin(keep), SetMax(keep))
Strip(s) == StripTo(s, {i \in 1..Len(s) : s[i] \notin Whitespace})

StartsWith(s, p) == Len(p) <= Len(s) /\ SubSeq(s, 1, Len(p)) = p

\* the literals of the source
S_mean   == <<"m","e","a","n">>
S_sum    == <<"s","u","m">>
S_max    == <<"m","a","x">>
S_min    == <<"m","i","n">>
S_median == <<"m","e","d","i","a","n">>
S_6H     == <<"6","H">>
S_D      == <<"D">>
S_M      == <<"M">>
S_Y      == <<"Y">>
S_unknown_var == <<"u","n","k","n","o","w","n","_","v","a","r">>

-----------------------------------------------------------------------------
(* Exact arithmetic on the cell values: rationals in lowest terms           *)

RECURSIVE Gcd(_, _)
Gcd(a, b) == IF b = 0 THEN a ELSE Gcd(b, a % b)

Abs(x) == IF x < 0 THEN -x ELSE x

Lowest(n, d, g) ==
    IF g = 0 THEN [num |-> 0, den |-> 0]
    ELSE IF d < 0 THEN [num |-> -(n \div g), den |-> -(d \div g)]
    ELSE [num |-> n \div g, den |-> d \div g]

Rat(n, d) == Lowest(n, d, Gcd(Abs(n), Abs(d)))

R(n) == [num |-> n, den |-> 1]
NaN  == [num |-> 0, den |-> 0]

RAdd(a, b) == Rat(a.num * b.den + b.num * a.den, a.den * b.den)
RMul(a, b) == Rat(a.num * b.num, a.den * b.den)
RDiv(a, b) == Rat(a.num * b.den, a.den * b.num)
RLeq(a, b) == a.num * b.den <= b.num * a.den

RECURSIVE SeqSum(_)
SeqSum(s) == IF s = <<>> THEN R(0) ELSE RAdd(Head(s), SeqSum(Tail(s)))

\* the k-th smallest element of s (1-based), ties counted
Kth(s, k) ==
    s[CHOOSE i \in 1..Len(s) :
        /\ Cardinality({j \in 1..Len(s) : ~RLeq(s[i], s[j])}) < k
        /\ Cardinality({j \in 1..Len(s) : RLeq(s[j], s[i])}) >= k]

\* numpy/xarray reductions over the valid values of one bucket or one
\* timestep: the sum of nothing is 0, every other reduction of nothing is
\* NaN; the median of an even number of values is the mean of the two middle
\* ones
ReduceValid(m, s) ==
    IF s = <<>> THEN (IF m = S_sum THEN R(0) ELSE NaN)
    ELSE IF m \in {S_sum, S_mean}
         THEN RDiv(SeqSum(s), R(IF m = S_sum THEN 1 ELSE Len(s)))
    ELSE IF m \in {S_max, S_min}
         THEN Kth(s, IF m = S_min THEN 1 ELSE Len(s))
    ELSE RDiv(RAdd(Kth(s, (Len(s) + 1) \div 2), Kth(s, (Len(s) \div 2) + 1)), R(2))

\* the reductions skip missing values (skipna is the default for floats)
IsNumber(x) == x.den # 0
Reduce(m, s) == ReduceValid(m, SelectSeq(s, IsNumber))

-----------------------------------------------------------------------------
(* The proleptic Gregorian calendar of numpy.datetime64 / pandas: days      *)
(* since 1970-01-01 to a civil date and back                                *)

DaysFromEra(era, yoe, doy) ==
    era * 146097 + yoe * 365 + (yoe \div 4) - (yoe \div 100) + doy - 719468
DaysFromYear(y, mp, d) ==
    DaysFromEra(y \div 400, y % 400, ((153 * mp + 2) \div 5) + d - 1)
DaysFromCivil(y, m, d) ==
    DaysFromYear(IF m <= 2 THEN y - 1 ELSE y, IF m > 2 THEN m - 3 ELSE m + 9, d)

CivilOf(era, yoe, doy, mp) ==
    [y |-> yoe + era * 400 + (IF mp < 10 THEN 0 ELSE 1),
     m |-> IF mp < 10 THEN mp + 3 ELSE mp - 9,
     d |-> doy - ((153 * mp + 2) \div 5) + 1]
CivilOfDoy(era, yoe, doy) == CivilOf(era, yoe, doy, (5 * doy + 2) \div 153)
CivilOfYoe(era, doe, yoe) ==
    CivilOfDoy(era, yoe, doe - (365 * yoe + (yoe \div 4) - (yoe \div 100)))
CivilOfDoe(era, doe) ==
    CivilOfYoe(era, doe,
               (doe - (doe \div 1460) + (doe \div 36524) - (doe \div 146096)) \div 365)
Civil(z) == CivilOfDoe((z + 719468) \div 146097, (z + 719468) % 146097)

YearOf(d) == Civil(d).y

\* months are counted from January of year 0
MonthOfCivil(c) == c.y * 12 + c.m - 1
MonthIdx(d) == MonthOfCivil(Civil(d))

MonthEndDay(k) == DaysFromCivil((k + 1) \div 12, ((k + 1) % 12) + 1, 1) - 1
YearEndDay(y)  == DaysFromCivil(y + 1, 1, 1) - 1

\* the stamp y-m-d h:00 in hours since 1970-01-01T00:00
Stamp(y, m, d, h) == 24 * DaysFromCivil(y, m, d) + h

-----------------------------------------------------------------------------
(* xarray.DataArray with a regular datetime axis                            *)
(*   named/name : da.name (named = FALSE is None)                           *)
(*   dims       : da.dims                                                   *)
(*   code       : spacing of the time axis, one of "6H", "D", "M", "A"      *)
(*                ("M": month ends, "A": year ends, both at 00:00)          *)
(*   first, n   : first stamp (hours since 1970-01-01), number of stamps    *)
(*   vals       : vals[i][c], the value of cell c at stamp i; <<>> while    *)
(*                the array is lazy (open_mfdataset(chunks='auto')) and     *)
(*                only its task graph is known                              *)
(*   graph      : the operations that produce the values from a source      *)

NoneDA == [none |-> TRUE]

TimeAt(da, i) ==
    IF da.code = "6H" THEN da.first + 6 * (i - 1)
    ELSE IF da.code = "D" THEN da.first + 24 * (i - 1)
    ELSE IF da.code = "M" THEN 24 * MonthEndDay(MonthIdx(da.first \div 24) + i - 1)
    ELSE 24 * YearEndDay(YearOf(da.first \div 24) + i - 1)

Ok(v)      == [tag |-> "ok", val |-> v]
Raise(e)   == [tag |-> "raise", exc |-> e]

\* pandas.infer_freq(da['time'].values): needs three stamps; names a yearly
\* axis by its anchor
infer_freq(da) ==
    IF da.n < 3 THEN Raise("ValueError")
    ELSE Ok(IF da.code = "6H" THEN S_6H
            ELSE IF da.code = "D" THEN S_D
            ELSE IF da.code = "M" THEN S_M
            ELSE <<"A","-","D","E","C">>)

\* (mutant) the right edge of a month or year bin is 00:00 of its last day
Bin_PlainEdge(F, closed, t) ==
    IF F \in {S_6H, S_D}
    THEN (IF closed = "left" THEN t ELSE t - 1) \div (IF F = S_6H THEN 6 ELSE 24)
    ELSE IF F = S_M
    THEN MonthIdx((t + (IF closed = "right" THEN 23 ELSE 24)) \div 24)
    ELSE YearOf((t + (IF closed = "right" THEN 23 ELSE 24)) \div 24)

\* The bin of stamp t for pandas frequency F: tick frequencies ('6H', 'D')
\* have bins of fixed width; 'M' and 'Y' have their edges at month and year
\* ends, a right-closed bin reaching to the end of its last day.
Bin(F, closed, t) ==
    IF F \in {S_6H, S_D}
    THEN (IF closed = "left" THEN t ELSE t - 1) \div (IF F = S_6H THEN 6 ELSE 24)
    ELSE IF F = S_M
    THEN MonthIdx((t \div 24) + (IF closed = "right" THEN 0 ELSE 1))
    ELSE YearOf((t \div 24) + (IF closed = "right" THEN 0 ELSE 1))

\* the stamp that labels bin b
BinLabel(F, label, b) ==
    IF F \in {S_6H, S_D}
    THEN (IF F = S_6H THEN 6 ELSE 24) * (IF label = "left" THEN b ELSE b + 1)
    ELSE IF F = S_M
    THEN 24 * MonthEndDay(IF label = "right" THEN b ELSE b - 1)
    ELSE 24 * YearEndDay(IF label = "right" THEN b ELSE b - 1)

FreqCode(F) ==
    IF F = S_6H THEN "6H" ELSE IF F = S_D THEN "D" ELSE IF F = S_M THEN "M" ELSE "A"

\* the frequencies of __main__.py ('A' is pandas' older name of 'Y')
KnownFreq(F) == F \in {S_6H, S_D, S_M, S_Y, <<"A">>}
CanonFreq(F) == IF F = <<"A">> THEN S_Y ELSE F

\* the values of cell c at the stamps lo..lo+k-1
CellRun(da, c, lo, k) == [x \in 1..k |-> da.vals[lo + x - 1][c]]

\* the reduction of every cell over the stamps I of one bin
BinRow(da, m, I) ==
    [c \in 1..Len(da.vals[1]) |->
        Reduce(m, IF I = {} THEN <<>> ELSE CellRun(da, c, SetMin(I), Cardinality(I)))]

\* the reduced array, given the bins b1 and bn of the first and last stamp
ResampleBins(da, F, label, closed, m, b1, bn) ==
    [da EXCEPT
       !.code  = FreqCode(F),
       !.first = BinLabel(F, label, b1),
       !.n     = bn - b1 + 1,
       !.vals  = IF da.vals = <<>> THEN <<>>
                 ELSE [j \in 1..(bn - b1 + 1) |->
                        BinRow(da, m, {i \in 1..da.n :
                                         Bin(F, closed, TimeAt(da, i)) = b1 + j - 1})],
       !.graph = Append(da.graph, <<"resample", F, m>>)]

\* da.resample(time=F, label=.., closed=..).<m>() for a supported m
Resample(da, F, label, closed, m) ==
    ResampleBins(da, F, label, closed, m,
                 Bin(F, closed, TimeAt(da, 1)), Bin(F, closed, TimeAt(da, da.n)))

-----------------------------------------------------------------------------
(* temporal_aggregator.py                                                   *)
(* A call's outcome is Ok(value) or Raise(exception).  env is the set of    *)
(* target frequencies whose resample raises in the installed pandas/xarray  *)
(* (a frequency alias the library rejects).                                 *)

SupportedMethods == {S_sum, S_mean, S_max, S_min, S_median}

\* lines 19-30: the dispatch on the normalized method name
SpatialReduce(da, normalized) ==
    IF normalized \in {S_mean, S_sum, S_max, S_min, S_median}
    THEN Ok([da EXCEPT
               !.dims  = da.dims \ {"lat", "lon"},
               !.vals  = IF da.vals = <<>> THEN <<>>
                         ELSE [i \in 1..da.n |-> <<Reduce(normalized, da.vals[i])>>],
               !.graph = Append(da.graph, <<"spatial", normalized>>)])
    ELSE Raise("ValueError")

\* (mutant) the method name is compared as written, without strip().lower()
perform_spatial_aggregation_AsWritten(da, spatial_agg_method) ==
    IF "lat" \notin da.dims \/ "lon" \notin da.dims
    THEN Raise("ValueError")
    ELSE SpatialReduce(da, spatial_agg_method)

\* _perform_spatial_aggregation(da, spatial_agg_method)
perform_spatial_aggregation(da, spatial_agg_method) ==
    IF "lat" \notin da.dims \/ "lon" \notin da.dims
    THEN Raise("ValueError")
    ELSE SpatialReduce(da, Lower(Strip(spatial_agg_method)))

\* the calendar-bound frequencies get right-labelled, right-closed bins
CalendarBound(F) ==
    Upper(F) \in {<<"M">>, <<"Y">>, <<"A">>, <<"A","S">>, <<"Q">>, <<"Q","S">>}

\* (mutant) left-labelled, left-closed bins for every target
Resampler_LeftAlways(da, target_freq, m, env) ==
    IF CanonFreq(Upper(target_freq)) \in env \/ ~KnownFreq(Upper(target_freq))
    THEN Raise("Exception")
    ELSE Ok(Resample(da, CanonFreq(Upper(target_freq)), "left", "left", m))

\* lines 69-72 and 114-117: the resampler of either aggregator, reduced by m
Resampler(da, target_freq, m, env) ==
    IF CanonFreq(Upper(target_freq)) \in env \/ ~KnownFreq(Upper(target_freq))
    THEN Raise("Exception")
    ELSE Ok(Resample(da, CanonFreq(Upper(target_freq)),
                     IF CalendarBound(target_freq) THEN "right" ELSE "left",
                     IF CalendarBound(target_freq) THEN "right" ELSE "left", m))

\* DataArray.to_dataframe(), then df.columns = [key]; shift is subtracted
\* from the index
ToDataFrame(ts, key, shift) ==
    IF ts.tag = "raise" THEN ts
    ELSE IF ~ts.val.named THEN Raise("ValueError")
    ELSE Ok([column |-> key, code |-> ts.val.code, first |-> ts.val.first - shift,
             n |-> ts.val.n,
             vals |-> IF ts.val.vals = <<>> THEN <<>>
                      ELSE [i \in 1..ts.val.n |-> ts.val.vals[i][1]],
             graph |-> ts.val.graph])

\* (mutant) every temporal method resamples with mean()
ResampleSeries_Mean(sp, target_freq, normalized, env) ==
    IF sp.tag = "raise" THEN sp
    ELSE IF normalized \notin {S_sum, S_mean, S_max, S_min, S_median}
    THEN Raise("ValueError")
    ELSE Resampler(sp.val, target_freq, S_mean, env)

\* lines 68-87: the temporal resampling of the spatially reduced series
ResampleSeries(sp, target_freq, normalized, env) ==
    IF sp.tag = "raise" THEN sp
    ELSE IF normalized \notin {S_sum, S_mean, S_max, S_min, S_median}
    THEN Raise("ValueError")
    ELSE Resampler(sp.val, target_freq, normalized, env)

\* (mutant) the temporal reduction of the grid first, the spatial reduction of
\* the reduced grid second
SpatialOf(rs, spatial_method) ==
    IF rs.tag = "raise" THEN rs ELSE perform_spatial_aggregation(rs.val, spatial_method)
SeriesFor_TemporalFirst(da, target_freq, spatial_method, temporal_agg_method, resampling_needed, key, env) ==
    IF ~resampling_needed
    THEN ToDataFrame(perform_spatial_aggregation(da, spatial_method), key,
                     IF Upper(target_freq) = S_6H THEN 6 ELSE 0)
    ELSE ToDataFrame(SpatialOf(ResampleSeries(Ok(da), target_freq,
                                              Lower(Strip(temporal_agg_method)), env),
                               spatial_method),
                     key, 0)

\* (mutant) the index of a series that is not resampled is never shifted
SeriesFor_NoShift(da, target_freq, spatial_method, temporal_agg_method, resampling_needed, key, env) ==
    IF ~resampling_needed
    THEN ToDataFrame(perform_spatial_aggregation(da, spatial_method), key, 0)
    ELSE ToDataFrame(ResampleSeries(perform_spatial_aggregation(da, spatial_method),
                                    target_freq, Lower(Strip(temporal_agg_method)), env),
                     key, 0)

\* (mutant) the temporal method name is validated on both paths
SeriesFor_ValidateFirst(da, target_freq, spatial_method, temporal_agg_method, resampling_needed, key, env) ==
    IF Lower(Strip(temporal_agg_method)) \notin {S_sum, S_mean, S_max, S_min, S_median}
    THEN Raise("ValueError")
    ELSE IF ~resampling_needed
    THEN ToDataFrame(perform_spatial_aggregation(da, spatial_method), key,
                     IF Upper(target_freq) = S_6H THEN 6 ELSE 0)
    ELSE ToDataFrame(ResampleSeries(perform_spatial_aggregation(da, spatial_method),
                                    target_freq, Lower(Strip(temporal_agg_method)), env),
                     key, 0)

\* lines 53-91, the body of the try block for one spatial method: Ok(df), or
\* Raise when it raised
SeriesFor(da, target_freq, spatial_method, temporal_agg_method, resampling_needed, key, env) ==
    IF ~resampling_needed
    THEN ToDataFrame(perform_spatial_aggregation(da, spatial_method), key,
                     IF Upper(target_freq) = S_6H THEN 6 ELSE 0)
    ELSE ToDataFrame(ResampleSeries(perform_spatial_aggregation(da, spatial_method),
                                    target_freq, Lower(Strip(temporal_agg_method)), env),
                     key, 0)

\* (mutant) no try/except around the body: the first failure ends the loop
\* and nothing is returned
PutSeries_Abort(acc, key, r) ==
    IF r.tag = "ok" /\ r.val.n > 0 THEN (key :> r.val) @@ acc ELSE <<>>

\* lines 93-98: the entry is kept unless the block raised or the table is empty
PutSeries(acc, key, r) ==
    IF r.tag = "ok" /\ r.val.n > 0 THEN (key :> r.val) @@ acc ELSE acc

KeyFor(da, spatial_method) ==
    (IF da.named /\ da.name # <<>> THEN da.name ELSE S_unknown_var)
        \o <<"_">> \o spatial_method

RECURSIVE SeriesLoop(_, _, _, _, _, _, _)
SeriesLoop(da, target_freq, methods, temporal_agg_method, resampling_needed, acc, env) ==
    IF methods = <<>> THEN acc
    ELSE SeriesLoop(da, target_freq, Tail(methods), temporal_agg_method,
                    resampling_needed,
                    PutSeries(acc, KeyFor(da, Head(methods)),
                              SeriesFor(da, target_freq, Head(methods),
                                        temporal_agg_method, resampling_needed,
                                        KeyFor(da, Head(methods)), env)),
                    env)

\* (mutant) the inferred frequency is not compared with the target: every
\* series is resampled
SeriesAfterInfer_AlwaysResample(da, target_freq, spatial_agg_methods, temporal_agg_method, input_freq_str, env) ==
    IF input_freq_str.tag = "raise" THEN input_freq_str
    ELSE Ok(SeriesLoop(da, target_freq, spatial_agg_methods, temporal_agg_method,
                       TRUE, <<>>, env))

\* lines 43-99, given the outcome of infer_freq
SeriesAfterInfer(da, target_freq, spatial_agg_methods, temporal_agg_method, input_freq_str, env) ==
    IF input_freq_str.tag = "raise" THEN input_freq_str
    ELSE Ok(SeriesLoop(da, target_freq, spatial_agg_methods, temporal_agg_method,
                       ~StartsWith(Upper(input_freq_str.val), Upper(target_freq)),
                       <<>>, env))

\* aggregate_data_to_timeseries(da, target_freq, spatial_agg_methods, temporal_agg_method)
aggregate_data_to_timeseries(da, target_freq, spatial_agg_methods, temporal_agg_method, env) ==
    IF da = NoneDA THEN Ok(<<>>)
    ELSE SeriesAfterInfer(da, target_freq, spatial_agg_methods, temporal_agg_method,
                          infer_freq(da), env)

\* (mutant) the exception of the resampling reaches the caller
NoneIfRaised_Reraise(rs) == rs

\* lines 113-132: a raise inside the try block becomes None
NoneIfRaised(rs) == IF rs.tag = "raise" THEN Ok(NoneDA) ELSE rs

\* lines 109-132, given the normalized method name
NetcdfReduce(da, target_freq, normalized, env) ==
    IF normalized \notin {S_sum, S_mean, S_max, S_min, S_median}
    THEN Raise("ValueError")
    ELSE NoneIfRaised(Resampler(da, target_freq, normalized, env))

\* (mutant) the method name is validated before the None check
aggregate_data_to_netcdf_ValidateFirst(da, target_freq, temporal_agg_method, env) ==
    IF Lower(Strip(temporal_agg_method)) \notin {S_sum, S_mean, S_max, S_min, S_median}
    THEN Raise("ValueError")
    ELSE IF da = NoneDA THEN Ok(NoneDA)
    ELSE NetcdfReduce(da, target_freq, Lower(Strip(temporal_agg_method)), env)

\* aggregate_data_to_netcdf(da, target_freq, temporal_agg_method)
aggregate_data_to_netcdf(da, target_freq, temporal_agg_method, env) ==
    IF da = NoneDA THEN Ok(NoneDA)
    ELSE NetcdfReduce(da, target_freq, Lower(Strip(temporal_agg_method)), env)

-----------------------------------------------------------------------------
(* One call of a function of temporal_aggregator.py on bounded arguments    *)

MaxSteps   == 4     \* stamps of an argument grid: 2..MaxSteps
MaxMethods == 2     \* length of a spatial_agg_methods list in the error cases

\* the cell values of one stamp (three cells: lat x lon flattened)
CellRows == { <<R(1), R(6), R(2)>>, <<R(5), R(2), R(4)>> }

\* first stamps: 2023-01-01T00:00 and stamps whose successors cross the end
\* of a day, a month and a year
Starts(code) ==
    IF code = "6H" THEN {Stamp(2023, 1, 1, 0), Stamp(2023, 12, 31, 18)}
    ELSE IF code = "D" THEN {Stamp(2023, 1, 1, 0), Stamp(2023, 12, 30, 0)}
    ELSE IF code = "M" THEN {Stamp(2023, 1, 31, 0), Stamp(2023, 11, 30, 0)}
    ELSE {Stamp(2023, 12, 31, 0)}

\* the targets process_variable can ask of a grid of that spacing
TargetsOf(code) ==
    IF code = "6H" THEN {S_6H, S_D, S_M, S_Y}
    ELSE IF code = "D" THEN {S_D, S_M, S_Y}
    ELSE IF code = "M" THEN {S_M, S_Y}
    ELSE {S_Y}

Codes == {"6H", "D", "M", "A"}

RowSeqs(n) == [1..n -> CellRows]

Grid(nm, code, first, rows) ==
    [named |-> TRUE, name |-> nm, dims |-> {"time", "lat", "lon"},
     code |-> code, first |-> first, n |-> Len(rows), vals |-> rows, graph |-> <<>>]

NumericGrids ==
    { Grid(<<"v">>, code, first, rows) :
        code \in Codes, first \in UNION {Starts(c) : c \in Codes},
        rows \in UNION {RowSeqs(n) : n \in 2..MaxSteps} }

WellFormed(g) == g.first \in Starts(g.code)

\* spellings of the method names: as written, upper case, capitalised and
\* padded, and strings that are no method
Capital(m) == [i \in 1..Len(m) |-> IF i = 1 THEN MapChar(m[i], LowerAlpha, UpperAlpha) ELSE m[i]]
Spellings(m) == {m, Upper(m), <<" ">> \o Capital(m) \o <<" ">>, <<"\t">> \o m \o <<"\n">>}
S_bogus == <<"b","o","g","u","s">>
NoMethod == {S_bogus, <<>>, <<"m","e"," ","a","n">>, <<"s","u","m","s">>, <<"a","v","g">>}
MethodNames == UNION {Spellings(m) : m \in SupportedMethods} \cup NoMethod

\* a few grids for the error cases: the fixture, without 'lat', unnamed,
\* named '', two stamps only
BaseRows == [i \in 1..3 |-> IF i = 2 THEN <<R(5), R(2), R(4)>> ELSE <<R(1), R(6), R(2)>>]
ErrorGrids ==
    LET g == Grid(<<"v">>, "D", Stamp(2023, 12, 30, 0), BaseRows)
    IN  { g,
          [g EXCEPT !.dims = {"time", "y", "lon"}],
          [g EXCEPT !.dims = {"time", "lat"}],
          [g EXCEPT !.named = FALSE, !.name = <<>>],
          [g EXCEPT !.name = <<>>],
          [g EXCEPT !.code = "6H", !.first = Stamp(2023, 12, 31, 18)],
          [g EXCEPT !.n = 2, !.vals = SubSeq(BaseRows, 1, 2)] }

\* grids with missing values: a cell that is never valid and a stamp
\* without any valid cell
MissingRows ==
    [i \in 1..3 |-> IF i = 2 THEN <<NaN, NaN, NaN>> ELSE <<R(i), NaN, R(4)>>]
MissingGrids ==
    { Grid(<<"v">>, code, first, MissingRows) : code \in Codes, first \in UNION {Starts(c) : c \in Codes} }

\* the 6-hourly fixture of the tests: 8 stamps from 2023-01-01T00:00, 2 x 2
\* cells holding 1..32
FixtureSteps == 8
S_test_flux == <<"t","e","s","t","_","f","l","u","x">>
FixtureRows ==
    [i \in 1..FixtureSteps |-> <<R(4 * i - 3), R(4 * i - 2), R(4 * i - 1), R(4 * i)>>]
Fixture6H == Grid(S_test_flux, "6H", Stamp(2023, 1, 1, 0), FixtureRows)

MethodLists ==
    UNION { [1..k -> {S_mean, S_bogus, <<" ">> \o Capital(S_max) \o <<" ">>}] :
            k \in 0..MaxMethods }

Args(da, f, sms, tm, env) ==
    [da |-> da, target_freq |-> f, spatial_agg_methods |-> sms,
     spatial_agg_method |-> IF sms = <<>> THEN S_mean ELSE Head(sms),
     temporal_agg_method |-> tm, env |-> env]

ArgSpace ==
    \* the reductions on every grid
    { Args(g, f, <<sm>>, tm, {}) :
        g \in {h \in NumericGrids : WellFormed(h)}, f \in {S_6H, S_D, S_M, S_Y},
        sm \in SupportedMethods, tm \in SupportedMethods }
    \cup
    \* the reductions on grids with missing values
    { Args(g, f, <<sm>>, tm, {}) :
        g \in {h \in MissingGrids : WellFormed(h)}, f \in {S_6H, S_D, S_M, S_Y},
        sm \in SupportedMethods, tm \in SupportedMethods }
    \cup
    \* the reductions on the fixture of the tests
    { Args(Fixture6H, f, <<sm>>, tm, {}) :
        f \in {S_6H, S_D, S_M, S_Y}, sm \in SupportedMethods, tm \in SupportedMethods }
    \cup
    \* the method names
    { Args(g, f, <<sm>>, tm, {}) :
        g \in ErrorGrids, f \in {S_D, S_M},
        sm \in MethodNames, tm \in {S_sum, S_bogus, <<" ">> \o Capital(S_mean) \o <<" ">>} }
    \cup
    \* lists of spatial methods, absent grids, a target the library rejects
    { Args(g, f, sms, tm, env) :
        g \in ErrorGrids \cup {NoneDA}, f \in {S_6H, S_D, S_M},
        sms \in MethodLists, tm \in {S_sum, S_bogus}, env \in {{}, {S_M}} }

InitAgg ==
    /\ args \in {a \in ArgSpace :
                   a.da = NoneDA \/ a.target_freq \in TargetsOf(a.da.code)}
    /\ out = [tag |-> "none"]
    /\ apc = "ready"
    /\ cfg = <<>> /\ native = <<>> /\ fs = <<>> /\ pc = <<>>
    /\ loc = <<>> /\ wlog = <<>> /\ mpc = "off" /\ made = {}

CallSpatial ==
    /\ apc = "ready"
    /\ args.da # NoneDA
    /\ out' = perform_spatial_aggregation(args.da, args.spatial_agg_method)
    /\ apc' = "_perform_spatial_aggregation"
    /\ UNCHANGED <<args, runVars>>

CallTimeseries ==
    /\ apc = "ready"
    /\ out' = aggregate_data_to_timeseries(args.da, args.target_freq,
                  args.spatial_agg_methods, args.temporal_agg_method, args.env)
    /\ apc' = "aggregate_data_to_timeseries"
    /\ UNCHANGED <<args, runVars>>

CallNetcdf ==
    /\ apc = "ready"
    /\ out' = aggregate_data_to_netcdf(args.da, args.target_freq,
                  args.temporal_agg_method, args.env)
    /\ apc' = "aggregate_data_to_netcdf"
    /\ UNCHANGED <<args, runVars>>

NextAgg == CallSpatial \/ CallTimeseries \/ CallNetcdf

SpecAgg == InitAgg /\ [][NextAgg]_vars

-----------------------------------------------------------------------------
(* Properties of the aggregators (under SpecAgg)                            *)

\* name spells method m: m in any casing, surrounded by whitespace only
Spells(name, m) ==
    \E lo \in 1..(Len(name) + 1) :
        /\ lo + Len(m) - 1 <= Len(name)
        /\ \A i \in 1..Len(name) :
             IF i < lo \/ i > lo + Len(m) - 1
             THEN name[i] \in Whitespace
             ELSE \E k \in 1..26 :
                    /\ m[i - lo + 1] = LowerAlpha[k]
                    /\ name[i] \in {LowerAlpha[k], UpperAlpha[k]}
Accepted(name) == \E m \in SupportedMethods : Spells(name, m)
MethodOf(name) == CHOOSE m \in SupportedMethods : Spells(name, m)

\* the calendar period of stamp t at frequency F
PeriodOf(F, t) ==
    IF F = S_6H THEN <<t \div 6>>
    ELSE IF F = S_D THEN <<t \div 24>>
    ELSE IF F = S_M THEN <<Civil(t \div 24).y, Civil(t \div 24).m>>
    ELSE <<Civil(t \div 24).y>>

\* the stamps of da that open a period, in order, and the stamps of the
\* j-th period
Openers(da, F) ==
    {i \in 1..da.n : i = 1 \/ PeriodOf(F, TimeAt(da, i)) # PeriodOf(F, TimeAt(da, i - 1))}
PeriodStamps(da, F, j) ==
    LET O  == Openers(da, F)
        lo == CHOOSE i \in O : Cardinality({k \in O : k < i}) = j - 1
    IN  {i \in lo..da.n : PeriodOf(F, TimeAt(da, i)) = PeriodOf(F, TimeAt(da, lo))}
AsSeq(I, f(_)) ==
    LET lo == CHOOSE i \in I : \A k \in I : i <= k
    IN  [x \in 1..Cardinality(I) |-> f(lo + x - 1)]

\* per period: the temporal method over the per-stamp spatial reductions
SpatialFirst(da, F, sm, tm) ==
    [j \in 1..Cardinality(Openers(da, F)) |->
        LET I == PeriodStamps(da, F, j)
            sp(i) == Reduce(sm, da.vals[i])
        IN  Reduce(tm, AsSeq(I, sp))]

\* per period: the spatial method over the per-cell temporal reductions
TemporalFirst(da, F, sm, tm) ==
    [j \in 1..Cardinality(Openers(da, F)) |->
        LET I == PeriodStamps(da, F, j)
        IN  Reduce(sm, [c \in 1..Len(da.vals[1]) |->
                          LET cell(i) == da.vals[i][c] IN Reduce(tm, AsSeq(I, cell))])]

TimeseriesMade ==
    /\ apc = "aggregate_data_to_timeseries"
    /\ args.da # NoneDA

\* the series was resampled: the inferred frequency of the axis does not
\* start with the target
Resampled ==
    ~StartsWith(Upper(infer_freq(args.da).val), Upper(args.target_freq))

\* the series of every requested method equals order(da, F, sm, tm) when it
\* was resampled, and holds the per-stamp spatial reductions when not
SeriesAre(order(_, _, _, _)) ==
    \A k \in 1..Len(args.spatial_agg_methods) :
        LET sm == args.spatial_agg_methods[k]
            key == KeyFor(args.da, sm)
        IN  (Accepted(sm) /\ key \in DOMAIN out.val) =>
                out.val[key].vals =
                    IF Resampled
                    THEN order(args.da, Upper(args.target_freq),
                               MethodOf(sm), MethodOf(args.temporal_agg_method))
                    ELSE [i \in 1..args.da.n |-> Reduce(MethodOf(sm), args.da.vals[i])]

\* C7 as stated: every value of a resampled series is the spatial method
\* applied to the per-cell temporal reductions of the bucket (temporal first,
\* spatial second).
C7_TemporalFirst ==
    (TimeseriesMade /\ out.tag = "ok" /\ Accepted(args.temporal_agg_method))
        => SeriesAre(TemporalFirst)

\* C7 (amended): aggregate_data_to_timeseries reduces in space first and in
\* time second: every value of a resampled series is the temporal method
\* applied, over the stamps of its bucket, to the per-stamp spatial
\* reductions; a series that is not resampled holds the per-stamp spatial
\* reductions themselves.
C7_SpatialFirst ==
    (TimeseriesMade /\ out.tag = "ok" /\ Accepted(args.temporal_agg_method))
        => SeriesAre(SpatialFirst)

\* a daily series of spatial maxima summed per month, where the two orders
\* of reduction give different values
C7_Witness ==
    /\ TimeseriesMade /\ out.tag = "ok"
    /\ args.da.code = "D" /\ args.target_freq = S_M
    /\ args.spatial_agg_methods = <<S_max>> /\ args.temporal_agg_method = S_sum
    /\ KeyFor(args.da, S_max) \in DOMAIN out.val
    /\ out.val[KeyFor(args.da, S_max)].vals = SpatialFirst(args.da, S_M, S_max, S_sum)
    /\ SpatialFirst(args.da, S_M, S_max, S_sum) # TemporalFirst(args.da, S_M, S_max, S_sum)

NetcdfMade ==
    /\ apc = "aggregate_data_to_netcdf"
    /\ args.da # NoneDA

Rejected(F, env) == CanonFreq(Upper(F)) \in env

\* C8 as stated: aggregate_data_to_netcdf never raises, whatever the method
\* name; a failure gives a null grid.
C8_NeverRaises ==
    NetcdfMade => (out.tag = "ok" /\ (~Accepted(args.temporal_agg_method) => out.val = NoneDA))

\* C8 (amended): aggregate_data_to_netcdf does not raise when the resampling
\* fails: it returns a null grid; it raises ValueError to its caller exactly
\* when the temporal method name is unrecognised.
C8_RaisesOnlyOnMethod ==
    NetcdfMade =>
        /\ (out.tag = "raise") <=> ~Accepted(args.temporal_agg_method)
        /\ out.tag = "raise" => out.exc = "ValueError"
        /\ (Accepted(args.temporal_agg_method) /\ Rejected(args.target_freq, args.env))
              => out = Ok(NoneDA)
        /\ (Accepted(args.temporal_agg_method) /\ ~Rejected(args.target_freq, args.env))
              => (out.tag = "ok" /\ out.val # NoneDA)

\* the resampling failed under a supported method and a null grid came back
C8_Witness ==
    /\ NetcdfMade
    /\ Accepted(args.temporal_agg_method) /\ Rejected(args.target_freq, args.env)
    /\ out = Ok(NoneDA)

\* C9: both reducers raise ValueError for a method name that, trimmed and
\* lower-cased, is none of the five, and treat every spelling of the five as
\* the name itself; the spatial reducer also raises without 'lat' or 'lon'.
C9_MethodNames ==
    /\ apc = "_perform_spatial_aggregation" =>
         IF "lat" \in args.da.dims /\ "lon" \in args.da.dims /\ Accepted(args.spatial_agg_method)
         THEN /\ out.tag = "ok"
              /\ out = perform_spatial_aggregation(args.da, MethodOf(args.spatial_agg_method))
         ELSE out = Raise("ValueError")
    /\ NetcdfMade =>
         IF Accepted(args.temporal_agg_method)
         THEN /\ out.tag = "ok"
              /\ out = aggregate_data_to_netcdf(args.da, args.target_freq,
                                                MethodOf(args.temporal_agg_method), args.env)
         ELSE out = Raise("ValueError")

\* ' Mean ' was given to the spatial reducer and reduced as 'mean'
C9_Witness ==
    /\ apc = "_perform_spatial_aggregation"
    /\ args.spatial_agg_method = <<" ","M","e","a","n"," ">>
    /\ out.tag = "ok"
    /\ out.val.graph = <<<<"spatial", S_mean>>>>

\* the keys of the requested methods that are supported
SupportedKeys ==
    {KeyFor(args.da, args.spatial_agg_methods[k]) :
        k \in {i \in 1..Len(args.spatial_agg_methods) : Accepted(args.spatial_agg_methods[i])}}

\* the handling of a supported spatial method cannot fail
HandlingSucceeds ==
    /\ "lat" \in args.da.dims /\ "lon" \in args.da.dims
    /\ args.da.named
    /\ \/ StartsWith(Upper(infer_freq(args.da).val), Upper(args.target_freq))
       \/ (Accepted(args.temporal_agg_method) /\ ~Rejected(args.target_freq, args.env))

\* C10 as stated: for any list of spatial methods the call does not raise and
\* the result holds an entry for every supported method and for no other.
C10_AlwaysEverySupported ==
    TimeseriesMade => (out.tag = "ok" /\ DOMAIN out.val = SupportedKeys)

\* C10 (amended): a failure while handling one spatial method is caught and
\* that method alone is left out: the call raises only when the frequency of
\* the time axis cannot be inferred (fewer than three stamps), the result
\* never holds an entry for an unsupported method, and it holds one for every
\* supported method of the list, whatever its position, provided the handling
\* of a supported method does not fail itself (the grid is named and has
\* 'lat' and 'lon', and the temporal method and the target are usable when
\* the series is resampled).
C10_PerMethodFailure ==
    TimeseriesMade =>
        /\ (out.tag = "raise") <=> (args.da.n < 3)
        /\ out.tag = "ok" =>
             /\ DOMAIN out.val \subseteq SupportedKeys
             /\ HandlingSucceeds => DOMAIN out.val = SupportedKeys

\* an unsupported method ahead of a supported one: only the latter is kept
C10_Witness ==
    /\ TimeseriesMade /\ out.tag = "ok"
    /\ args.spatial_agg_methods = <<S_bogus, S_mean>>
    /\ DOMAIN out.val = {KeyFor(args.da, S_mean)}

\* '{variable}_{spatial_method}_{target_freq}_{temporal_method}'
LongKey(da, sm, F, tm) == KeyFor(da, sm) \o <<"_">> \o F \o <<"_">> \o tm

\* C11 as stated: every entry of the result of aggregate_data_to_timeseries
\* is a single-column table whose column is named by its key, and the key is
\* '{variable}_{spatial_method}' when no resampling was performed and
\* '{variable}_{spatial_method}_{target_freq}_{temporal_method}' when it was.
C11_KeyFormat ==
    (TimeseriesMade /\ out.tag = "ok") =>
        \A key \in DOMAIN out.val :
            /\ out.val[key].column = key
            /\ \E k \in 1..Len(args.spatial_agg_methods) :
                 key = IF Resampled
                       THEN LongKey(args.da, args.spatial_agg_methods[k],
                                    args.target_freq, args.temporal_agg_method)
                       ELSE KeyFor(args.da, args.spatial_agg_methods[k])

\* the label of the calendar period of stamp t at frequency F: 00:00 of the
\* day of t for 'D', the last day of the month or year of t for 'M' and 'Y'
LabelOfCivil(F, c, t) ==
    IF F = S_6H THEN t - (t % 6)
    ELSE IF F = S_D THEN Stamp(c.y, c.m, c.d, 0)
    ELSE IF F = S_M
    THEN (IF c.m = 12 THEN Stamp(c.y + 1, 1, 1, 0) ELSE Stamp(c.y, c.m + 1, 1, 0)) - 24
    ELSE Stamp(c.y, 12, 31, 0)
LabelOf(F, t) == LabelOfCivil(F, Civil(t \div 24), t)

\* the method whose series is stored under key
MethodOfKey(key) ==
    MethodOf(CHOOSE sm \in {args.spatial_agg_methods[k] : k \in 1..Len(args.spatial_agg_methods)} :
                Accepted(sm) /\ key = KeyFor(args.da, sm))

RowsAt(df, t) == {j \in 1..df.n : TimeAt(df, j) = t}

\* C14 as stated: for 6-hourly input and target '6H' the series has one row
\* per input stamp and the row labelled with input stamp t holds the spatial
\* reduction of the grid at t (the time axis is preserved).
C14_TimeAxisPreserved ==
    (TimeseriesMade /\ out.tag = "ok" /\ args.da.code = "6H"
        /\ Upper(args.target_freq) = S_6H) =>
        \A key \in DOMAIN out.val :
            /\ out.val[key].n = args.da.n
            /\ \A i \in 1..args.da.n :
                 \E j \in RowsAt(out.val[key], TimeAt(args.da, i)) :
                     out.val[key].vals[j] = Reduce(MethodOfKey(key), args.da.vals[i])

\* the call asks for the frequency the daily, monthly or yearly axis of its
\* grid already has
SameFrequency ==
    /\ args.da # NoneDA
    /\ args.da.code \in {"D", "M", "A"}
    /\ FreqCode(Upper(args.target_freq)) = args.da.code

ResampleOps(graph) == {i \in 1..Len(graph) : graph[i][1] = "resample"}

\* reducing the grid that a call of aggregate_data_to_netcdf returned once
\* more, to the same frequency with the same method, gives the same values
ReducedAgainSame ==
    (NetcdfMade /\ out.tag = "ok" /\ out.val # NoneDA) =>
        aggregate_data_to_netcdf(out.val, args.target_freq,
                                 args.temporal_agg_method, args.env).val.vals = out.val.vals

OnlyValue(tm, x) == IF MethodOf(tm) = S_sum /\ ~IsNumber(x) THEN R(0) ELSE x

Bucket(da, F, t) == {i \in 1..da.n : LabelOf(F, TimeAt(da, i)) = t}
Labels(da, F) == {LabelOf(F, TimeAt(da, i)) : i \in 1..da.n}

\* the rows of the resampled array ax are the calendar periods of the input
\* stamps, one row per period, labelled as LabelOf says
RowsArePeriods(ax, da, F) ==
    /\ {TimeAt(ax, j) : j \in 1..ax.n} = Labels(da, F)
    /\ ax.n = Cardinality(Labels(da, F))

\* C16: with target 'D', 'M' or 'Y' both aggregators put the input stamp t
\* into exactly one bucket, the one labelled 00:00 of t's calendar day, or
\* the last day of t's month or year: the output has one row per such label
\* and its value is the temporal method over exactly the stamps of that
\* calendar period, so every stamp is counted once and none is dropped.
C16_Windows ==
    /\ (NetcdfMade /\ out.tag = "ok" /\ out.val # NoneDA
            /\ Upper(args.target_freq) \in {S_D, S_M, S_Y}) =>
          /\ RowsArePeriods(out.val, args.da, Upper(args.target_freq))
          /\ \A j \in 1..out.val.n :
               out.val.vals[j] =
                 [c \in 1..Len(args.da.vals[1]) |->
                    LET cell(i) == args.da.vals[i][c]
                    IN  Reduce(MethodOf(args.temporal_agg_method),
                               AsSeq(Bucket(args.da, Upper(args.target_freq),
                                            TimeAt(out.val, j)), cell))]
    /\ (TimeseriesMade /\ out.tag = "ok" /\ Resampled
            /\ Upper(args.target_freq) \in {S_D, S_M, S_Y}) =>
          \A key \in DOMAIN out.val :
              /\ RowsArePeriods(out.val[key], args.da, Upper(args.target_freq))
              /\ \A j \in 1..out.val[key].n :
                   out.val[key].vals[j] =
                     LET sp(i) == Reduce(MethodOfKey(key), args.da.vals[i])
                     IN  Reduce(MethodOf(args.temporal_agg_method),
                                AsSeq(Bucket(args.da, Upper(args.target_freq),
                                             TimeAt(out.val[key], j)), sp))

\* four 6-hourly stamps from 2023-12-31T18:00 reduced to months: the first
\* stamp is the only one of the bucket labelled 2023-12-31, the other three
\* make the bucket labelled 2024-01-31
C16_Witness ==
    /\ NetcdfMade /\ out.tag = "ok" /\ out.val # NoneDA
    /\ args.da.code = "6H" /\ args.da.first = Stamp(2023, 12, 31, 18) /\ args.da.n = 4
    /\ args.target_freq = S_M
    /\ out.val.n = 2
    /\ TimeAt(out.val, 1) = Stamp(2023, 12, 31, 0)
    /\ TimeAt(out.val, 2) = Stamp(2024, 1, 31, 0)
    /\ Bucket(args.da, S_M, Stamp(2024, 1, 31, 0)) = {2, 3, 4}

\* C17: a 6-hourly grid reduced to a daily series with spatial 'mean' and
\* temporal 'sum' has one row per calendar day, holding the sum over the
\* day's stamps of the per-stamp spatial means; for the fixture of the tests
\* (8 stamps, cells 1..32) the rows are 34 at 2023-01-01 and 98 at 2023-01-02.
C17_DailySumOfMeans ==
    (TimeseriesMade /\ out.tag = "ok" /\ args.da.code = "6H"
        /\ Upper(args.target_freq) = S_D
        /\ Len(args.spatial_agg_methods) = 1
        /\ Spells(args.spatial_agg_methods[1], S_mean)
        /\ Spells(args.temporal_agg_method, S_sum)
        /\ args.da.named /\ {"lat", "lon"} \subseteq args.da.dims) =>
        /\ DOMAIN out.val = {KeyFor(args.da, args.spatial_agg_methods[1])}
        /\ \A key \in DOMAIN out.val :
             /\ RowsArePeriods(out.val[key], args.da, S_D)
             /\ \A j \in 1..out.val[key].n :
                  out.val[key].vals[j] =
                    LET mean(i) == Reduce(S_mean, args.da.vals[i])
                    IN  Reduce(S_sum, AsSeq(Bucket(args.da, S_D, TimeAt(out.val[key], j)), mean))
             /\ args.da = Fixture6H =>
                  /\ out.val[key].n = 2
                  /\ TimeAt(out.val[key], 1) = Stamp(2023, 1, 1, 0)
                  /\ TimeAt(out.val[key], 2) = Stamp(2023, 1, 2, 0)
                  /\ out.val[key].vals = <<R(34), R(98)>>

\* the call of the test: the fixture, 'D', ['mean'], 'sum' gives 34 and 98
C17_Witness ==
    /\ TimeseriesMade /\ out.tag = "ok"
    /\ args.da = Fixture6H /\ args.target_freq = S_D
    /\ args.spatial_agg_methods = <<S_mean>> /\ args.temporal_agg_method = S_sum
    /\ \E key \in DOMAIN out.val : out.val[key].vals = <<R(34), R(98)>>

\* the grid reached from da by the chain of process_variable: daily first,
\* then monthly, then (for target 'Y') yearly, each step with method tm
ViaDaily(da, F, tm, env) ==
    aggregate_data_to_netcdf(aggregate_data_to_netcdf(da, S_D, tm, env).val, F, tm, env).val
ViaDailyMonthly(da, tm, env) ==
    aggregate_data_to_netcdf(ViaDaily(da, S_M, tm, env), S_Y, tm, env).val

\* the same stamps and the same values in every cell
SameGrid(a, b) ==
    /\ a.code = b.code /\ a.first = b.first /\ a.n = b.n
    /\ a.vals = b.vals /\ a.dims = b.dims /\ a.name = b.name

\* C18: for a 6-hourly grid, aggregate_data_to_netcdf to 'M' (or 'Y') with
\* 'sum' gives the grid that the chain gives, 6-hourly to daily to monthly
\* (to yearly) with 'sum' at every step: the same buckets and the same value
\* in every cell.
C18_ChainEquivalence ==
    (NetcdfMade /\ out.tag = "ok" /\ out.val # NoneDA /\ args.da.code = "6H"
        /\ Upper(args.target_freq) \in {S_M, S_Y}
        /\ Spells(args.temporal_agg_method, S_sum)) =>
        /\ SameGrid(out.val, ViaDaily(args.da, args.target_freq,
                                      args.temporal_agg_method, args.env))
        /\ Upper(args.target_freq) = S_Y =>
             SameGrid(out.val, ViaDailyMonthly(args.da, args.temporal_agg_method, args.env))

\* four 6-hourly stamps from 2023-12-31T18:00 summed per month: two buckets,
\* directly and by way of the two daily sums
C18_Witness ==
    /\ NetcdfMade /\ out.tag = "ok" /\ out.val # NoneDA
    /\ args.da.code = "6H" /\ args.da.first = Stamp(2023, 12, 31, 18) /\ args.da.n = 4
    /\ args.target_freq = S_M /\ args.temporal_agg_method = S_sum
    /\ out.val.n = 2
    /\ aggregate_data_to_netcdf(args.da, S_D, S_sum, args.env).val.n = 2
    /\ SameGrid(out.val, ViaDaily(args.da, S_M, S_sum, args.env))


\* C25: with an absent input grid aggregate_data_to_timeseries returns the
\* empty mapping and aggregate_data_to_netcdf returns None, whatever the
\* target frequency and the method names, and neither raises.
C25_AbsentGrid ==
    args.da = NoneDA =>
        /\ apc = "aggregate_data_to_timeseries" => out = Ok(<<>>)
        /\ apc = "aggregate_data_to_netcdf" => out = Ok(NoneDA)

\* the grid reducer called without a grid and with an unsupported method
C25_Witness ==
    /\ args.da = NoneDA /\ apc = "aggregate_data_to_netcdf"
    /\ args.temporal_agg_method = S_bogus
    /\ args.target_freq = S_M
    /\ out = Ok(NoneDA)


\* C30: when the inferred frequency starts with the target the result does
\* not depend on the temporal method: the name is not looked at, so 'bogus'
\* gives what 'mean' and 'sum' give, and that is an entry for every
\* supported spatial method of a well-formed grid; an unrecognised temporal
\* name leaves the result empty when the series is resampled.
C30_MethodUnusedWithoutResampling ==
    (TimeseriesMade /\ out.tag = "ok") =>
        /\ ~Resampled =>
             /\ \A tm \in {S_mean, S_sum, S_bogus} :
                  out = aggregate_data_to_timeseries(args.da, args.target_freq,
                            args.spatial_agg_methods, tm, args.env)
             /\ ("lat" \in args.da.dims /\ "lon" \in args.da.dims /\ args.da.named) =>
                  DOMAIN out.val = SupportedKeys
        /\ (Resampled /\ ~Accepted(args.temporal_agg_method)) => out.val = <<>>

\* a daily grid asked for daily series with the temporal method 'bogus'
C30_Witness ==
    /\ TimeseriesMade /\ out.tag = "ok"
    /\ args.da.code = "D" /\ args.target_freq = S_D
    /\ args.temporal_agg_method = S_bogus
    /\ args.spatial_agg_methods = <<S_mean>>
    /\ DOMAIN out.val = {KeyFor(args.da, S_mean)}

-----------------------------------------------------------------------------
(* The output files.  A path is its directory (the NC or TS directory of a  *)
(* frequency) and its file name; fs maps the paths that exist to their      *)
(* contents.  aggregator/output_writer.py is not in the source tree: the    *)
(* two writers follow spec.md, section 6 (grid files named by the internal  *)
(* variable name, one series file per variable and frequency).              *)

S_nc == <<".","n","c">>
S_mm == <<"_","m","m">>

S_hourly_TS == <<"h","o","u","r","l","y","_","T","S">>
S_ly_TS == <<"l","y","_","T","S">>
S_ly_NC == <<"l","y","_","N","C">>

\* __main__.py, lines 272-273: the directory of a frequency, by its name
\* under <data dir>/pp ('6hhourly_TS', 'dly_TS', 'mly_NC', ...)
nc_output_dirs(freq) == [dir |-> Lower(freq) \o S_ly_NC, freq |-> freq]

\* (mutant) one series directory for all frequencies
ts_output_dirs_OneDir(freq) == [dir |-> S_ly_TS, freq |-> freq]

ts_output_dirs(freq) ==
    [dir |-> Lower(freq) \o (IF freq = S_6H THEN S_hourly_TS ELSE S_ly_TS), freq |-> freq]
PathJoin(d, file) == [dir |-> d.dir, freq |-> d.freq, file |-> file]

Unreadable == [unreadable |-> TRUE]

\* load_lisflood_variable_data(path): None when the file cannot be opened,
\* else its array as a new lazy graph
load_lisflood_variable_data(fsys, path) ==
    IF path \notin DOMAIN fsys THEN NoneDA
    ELSE IF fsys[path] = Unreadable THEN NoneDA
    ELSE [fsys[path] EXCEPT !.graph = <<<<"open", path>>>>]

\* save_netcdf_data(da, dir, filename=None): the write it makes
save_netcdf_data(da, d, filename) ==
    <<[path |-> PathJoin(d, filename), content |-> da]>>

\* save_timeseries_to_csv(timeseries_dict, dir, lisf_var, freq): the write
\* it makes; nothing to write for an empty mapping
save_timeseries_to_csv(timeseries_dict, d, lisf_var, freq) ==
    IF DOMAIN timeseries_dict = {} THEN <<>>
    ELSE <<[path |-> PathJoin(d, lisf_var), content |-> timeseries_dict]>>

\* the file system after the writes ws (at most one per step)
Written(fsys, ws) ==
    IF ws = <<>> THEN fsys ELSE (ws[1].path :> ws[1].content) @@ fsys
PathsOf(ws) == [i \in 1..Len(ws) |-> ws[i].path]

-----------------------------------------------------------------------------
(* __main__.py: process_variable, one step per file-system operation        *)

Terminal == {"done", "skipped", "failed"}

\* (mutant) the monthly grid is made from the 6-hourly one in one step
aggregation_chain_Direct(current_freq_code) ==
    IF current_freq_code = S_6H THEN <<S_M, S_Y>>
    ELSE IF current_freq_code = S_D THEN <<S_M, S_Y>>
    ELSE IF current_freq_code = S_M THEN <<S_Y>>
    ELSE <<>>

\* lines 159-162
aggregation_chain(current_freq_code) ==
    IF current_freq_code = S_6H THEN <<S_D, S_M, S_Y>>
    ELSE IF current_freq_code = S_D THEN <<S_M, S_Y>>
    ELSE IF current_freq_code = S_M THEN <<S_Y>>
    ELSE <<>>

\* line 123
native_freq_code(input_timestep_hours) ==
    IF input_timestep_hours = 6 THEN S_6H ELSE S_D

\* the locals of process_variable before its first statement
NoLocals ==
    [da_original |-> NoneDA, internal_var_name |-> <<>>, temporal_agg_method |-> <<>>,
     da_current_agg |-> NoneDA, current_freq_code |-> <<>>, is_resumed |-> FALSE,
     chained |-> FALSE, chain |-> <<>>, da_mm |-> NoneDA, stage |-> 0]

\* lines 44-52
LoadNative(v) ==
    /\ pc[v] = "call"
    /\ IF native[v] = NoneDA
       THEN pc' = [pc EXCEPT ![v] = "skipped"] /\ UNCHANGED loc
       ELSE IF ~native[v].named \/ native[v].name = <<>>
       THEN pc' = [pc EXCEPT ![v] = "skipped"] /\ UNCHANGED loc
       ELSE /\ pc' = [pc EXCEPT ![v] = "classify"]
            /\ loc' = [loc EXCEPT ![v].da_original = native[v],
                                  ![v].internal_var_name = native[v].name]
    /\ UNCHANGED <<cfg, native, fs, wlog, mpc, aggVars, made>>

\* (mutant) the flux and state lists are looked at before the discharge list
Classify_FluxFirst(v) ==
    /\ pc[v] = "classify"
    /\ IF v \in cfg.fluxes_vars
       THEN /\ pc' = [pc EXCEPT ![v] = "resume"]
            /\ loc' = [loc EXCEPT ![v].temporal_agg_method = cfg.fluxes_agg_type]
       ELSE IF v \in cfg.states_vars
       THEN /\ pc' = [pc EXCEPT ![v] = "resume"]
            /\ loc' = [loc EXCEPT ![v].temporal_agg_method = cfg.states_agg_type]
       ELSE IF v \in cfg.discharge_vars
       THEN IF cfg.area_map = NoneDA
            THEN pc' = [pc EXCEPT ![v] = "skipped"] /\ UNCHANGED loc
            ELSE /\ pc' = [pc EXCEPT ![v] = "discharge"]
                 /\ loc' = [loc EXCEPT ![v].stage = 1]
       ELSE pc' = [pc EXCEPT ![v] = "skipped"] /\ UNCHANGED loc
    /\ UNCHANGED <<cfg, native, fs, wlog, mpc, aggVars, made>>

\* (mutant) the discharge branch is entered without looking at the area map
Classify_NoAreaCheck(v) ==
    /\ pc[v] = "classify"
    /\ IF v \in cfg.discharge_vars
       THEN /\ pc' = [pc EXCEPT ![v] = "discharge"]
            /\ loc' = [loc EXCEPT ![v].stage = 1]
       ELSE IF v \in cfg.fluxes_vars
       THEN /\ pc' = [pc EXCEPT ![v] = "resume"]
            /\ loc' = [loc EXCEPT ![v].temporal_agg_method = cfg.fluxes_agg_type]
       ELSE IF v \in cfg.states_vars
       THEN /\ pc' = [pc EXCEPT ![v] = "resume"]
            /\ loc' = [loc EXCEPT ![v].temporal_agg_method = cfg.states_agg_type]
       ELSE pc' = [pc EXCEPT ![v] = "skipped"] /\ UNCHANGED loc
    /\ UNCHANGED <<cfg, native, fs, wlog, mpc, aggVars, made>>

\* lines 55-118: the discharge branch is entered, or the temporal method is
\* chosen, or the variable is skipped
Classify(v) ==
    /\ pc[v] = "classify"
    /\ IF v \in cfg.discharge_vars
       THEN IF cfg.area_map = NoneDA
            THEN pc' = [pc EXCEPT ![v] = "skipped"] /\ UNCHANGED loc
            ELSE /\ pc' = [pc EXCEPT ![v] = "discharge"]
                 /\ loc' = [loc EXCEPT ![v].stage = 1]
       ELSE IF v \in cfg.fluxes_vars
       THEN /\ pc' = [pc EXCEPT ![v] = "resume"]
            /\ loc' = [loc EXCEPT ![v].temporal_agg_method = cfg.fluxes_agg_type]
       ELSE IF v \in cfg.states_vars
       THEN /\ pc' = [pc EXCEPT ![v] = "resume"]
            /\ loc' = [loc EXCEPT ![v].temporal_agg_method = cfg.states_agg_type]
       ELSE pc' = [pc EXCEPT ![v] = "skipped"] /\ UNCHANGED loc
    /\ UNCHANGED <<cfg, native, fs, wlog, mpc, aggVars, made>>

\* one step of task v: its writes reach the file system and its write log
Commit(v, ws) ==
    /\ fs' = Written(fs, ws)
    /\ wlog' = [wlog EXCEPT ![v] = @ \o PathsOf(ws)]

Raised(v) ==
    /\ pc' = [pc EXCEPT ![v] = "raised"]
    /\ UNCHANGED <<loc, fs, wlog>>

GridFile(freq, internal_var_name) ==
    PathJoin(nc_output_dirs(freq), internal_var_name \o S_nc)

\* (mutant) an existing daily grid is a resume point for daily input too
ResumePoint_DailyForDaily(fsys, internal_var_name, overwrite, input_timestep_hours) ==
    IF overwrite
    THEN [at |-> "native", freq |-> native_freq_code(input_timestep_hours)]
    ELSE IF GridFile(S_Y, internal_var_name) \in DOMAIN fsys
    THEN [at |-> "complete", freq |-> S_Y]
    ELSE IF GridFile(S_M, internal_var_name) \in DOMAIN fsys
    THEN [at |-> "file", freq |-> S_M]
    ELSE IF GridFile(S_D, internal_var_name) \in DOMAIN fsys
    THEN [at |-> "file", freq |-> S_D]
    ELSE [at |-> "native", freq |-> native_freq_code(input_timestep_hours)]

\* (mutant) the yearly grid is not looked for
ResumePoint_NoYearly(fsys, internal_var_name, overwrite, input_timestep_hours) ==
    IF overwrite
    THEN [at |-> "native", freq |-> native_freq_code(input_timestep_hours)]
    ELSE IF GridFile(S_M, internal_var_name) \in DOMAIN fsys
    THEN [at |-> "file", freq |-> S_M]
    ELSE IF GridFile(S_D, internal_var_name) \in DOMAIN fsys /\ input_timestep_hours = 6
    THEN [at |-> "file", freq |-> S_D]
    ELSE [at |-> "native", freq |-> native_freq_code(input_timestep_hours)]

\* lines 122-144: where the chain starts
ResumePoint(fsys, internal_var_name, overwrite, input_timestep_hours) ==
    IF overwrite
    THEN [at |-> "native", freq |-> native_freq_code(input_timestep_hours)]
    ELSE IF GridFile(S_Y, internal_var_name) \in DOMAIN fsys
    THEN [at |-> "complete", freq |-> S_Y]
    ELSE IF GridFile(S_M, internal_var_name) \in DOMAIN fsys
    THEN [at |-> "file", freq |-> S_M]
    ELSE IF GridFile(S_D, internal_var_name) \in DOMAIN fsys /\ input_timestep_hours = 6
    THEN [at |-> "file", freq |-> S_D]
    ELSE [at |-> "native", freq |-> native_freq_code(input_timestep_hours)]

\* lines 137-148: the grid the chain starts from; None ends the task
StartAt(v, freq, is_resumed, da) ==
    /\ loc' = [loc EXCEPT ![v].da_current_agg = da,
                          ![v].current_freq_code = freq,
                          ![v].is_resumed = is_resumed]
    /\ pc' = [pc EXCEPT ![v] = IF da = NoneDA THEN "failed" ELSE "series"]

\* (mutant) a resume file that cannot be loaded falls back to the native grid
Resumed_FallBack(v, l, r) ==
    IF r.at = "complete"
    THEN pc' = [pc EXCEPT ![v] = "done"] /\ UNCHANGED loc
    ELSE IF r.at = "file"
            /\ load_lisflood_variable_data(fs, GridFile(r.freq, l.internal_var_name)) = NoneDA
    THEN StartAt(v, native_freq_code(cfg.input_timestep_hours), FALSE, l.da_original)
    ELSE StartAt(v, r.freq, r.at = "file",
                 IF r.at = "file"
                 THEN load_lisflood_variable_data(fs, GridFile(r.freq, l.internal_var_name))
                 ELSE l.da_original)

Resumed(v, l, r) ==
    IF r.at = "complete"
    THEN pc' = [pc EXCEPT ![v] = "done"] /\ UNCHANGED loc
    ELSE StartAt(v, r.freq, r.at = "file",
                 IF r.at = "file"
                 THEN load_lisflood_variable_data(fs, GridFile(r.freq, l.internal_var_name))
                 ELSE l.da_original)

Resume(v) ==
    /\ pc[v] = "resume"
    /\ Resumed(v, loc[v], ResumePoint(fs, loc[v].internal_var_name, cfg.overwrite,
                                      cfg.input_timestep_hours))
    /\ UNCHANGED <<cfg, native, fs, wlog, mpc, aggVars, made>>

\* lines 157-162 and 180: the series are written; the chain is entered or
\* resumed
SeriesWritten(v, target_freq, timeseries_dict, chain) ==
    IF timeseries_dict.tag = "raise" THEN Raised(v)
    ELSE /\ Commit(v, save_timeseries_to_csv(timeseries_dict.val,
                                             ts_output_dirs(target_freq), v, target_freq))
         /\ loc' = [loc EXCEPT ![v].chained = TRUE, ![v].chain = chain]
         /\ pc' = [pc EXCEPT ![v] = IF chain = <<>> THEN "done" ELSE "aggregate"]

\* lines 150-162 (the first series) and 175-180 (the series of a chain step)
Series(v) ==
    /\ pc[v] = "series"
    /\ SeriesWritten(v, loc[v].current_freq_code,
                     aggregate_data_to_timeseries(loc[v].da_current_agg,
                         loc[v].current_freq_code,
                         cfg.spatial_agg_methods_for_timeseries,
                         loc[v].temporal_agg_method, cfg.env),
                     IF loc[v].chained THEN loc[v].chain
                     ELSE aggregation_chain(loc[v].current_freq_code))
    /\ UNCHANGED <<cfg, native, mpc, aggVars, made>>

\* (mutant) a null grid skips the step and the loop goes on (continue for
\* break)
Aggregated_Continue(v, l, target_freq, next_da) ==
    IF next_da.tag = "raise" THEN Raised(v)
    ELSE IF next_da.val = NoneDA
    THEN /\ pc' = [pc EXCEPT ![v] = IF Tail(l.chain) = <<>> THEN "done" ELSE "aggregate"]
         /\ loc' = [loc EXCEPT ![v].chain = Tail(l.chain)]
         /\ UNCHANGED <<fs, wlog>>
    ELSE /\ loc' = [loc EXCEPT ![v].da_current_agg = next_da.val,
                               ![v].current_freq_code = target_freq,
                               ![v].chain = Tail(l.chain)]
         /\ Commit(v, IF cfg.save_agg_nc_maps
                      THEN save_netcdf_data(next_da.val, nc_output_dirs(target_freq),
                                            next_da.val.name \o S_nc)
                      ELSE <<>>)
         /\ pc' = [pc EXCEPT ![v] = "series"]

\* lines 166-173, given the outcome of aggregate_data_to_netcdf
Aggregated(v, l, target_freq, next_da) ==
    IF next_da.tag = "raise" THEN Raised(v)
    ELSE IF next_da.val = NoneDA
    THEN pc' = [pc EXCEPT ![v] = "failed"] /\ UNCHANGED <<loc, fs, wlog>>
    ELSE /\ loc' = [loc EXCEPT ![v].da_current_agg = next_da.val,
                               ![v].current_freq_code = target_freq,
                               ![v].chain = Tail(l.chain)]
         /\ Commit(v, IF cfg.save_agg_nc_maps
                      THEN save_netcdf_data(next_da.val, nc_output_dirs(target_freq),
                                            next_da.val.name \o S_nc)
                      ELSE <<>>)
         /\ pc' = [pc EXCEPT ![v] = "series"]

\* lines 164-173: one step of the chain
Aggregate(v) ==
    /\ pc[v] = "aggregate"
    /\ Aggregated(v, loc[v], Head(loc[v].chain),
                  aggregate_data_to_netcdf(loc[v].da_current_agg, Head(loc[v].chain),
                                           loc[v].temporal_agg_method, cfg.env))
    /\ UNCHANGED <<cfg, native, mpc, aggVars, made>>

\* lines 82-84: rate to depth, (rate * 86400 * 1000) / area, named <name>_mm
ToDepth(da, area_map, internal_var_name) ==
    [da EXCEPT
       !.name  = internal_var_name \o S_mm,
       !.vals  = IF da.vals = <<>> THEN <<>>
                 ELSE [i \in 1..da.n |->
                        [c \in 1..Len(da.vals[i]) |->
                           RDiv(RMul(da.vals[i][c], R(86400 * 1000)), area_map.vals[c])]],
       !.graph = Append(da.graph, <<"depth">>)]

\* (mutant) the daily rate of the depth path is the sum of the 6-hour rates
DischargeStage_DailySum(k, l, input_timestep_hours) ==
    IF k = 1 THEN [src |-> l.da_original, freq |-> S_D, method |-> S_sum,
                   resample |-> (input_timestep_hours = 6), depth |-> TRUE,
                   file |-> l.internal_var_name \o S_mm \o S_nc, saved |-> TRUE]
    ELSE IF k = 2 THEN [src |-> l.da_mm, freq |-> S_M, method |-> S_sum,
                   resample |-> TRUE, depth |-> FALSE,
                   file |-> l.internal_var_name \o S_mm \o S_nc, saved |-> TRUE]
    ELSE IF k = 3 THEN [src |-> l.da_mm, freq |-> S_Y, method |-> S_sum,
                   resample |-> TRUE, depth |-> FALSE,
                   file |-> l.internal_var_name \o S_mm \o S_nc, saved |-> TRUE]
    ELSE IF k = 4 THEN [src |-> l.da_original, freq |-> S_D, method |-> S_mean,
                   resample |-> (input_timestep_hours = 6), depth |-> FALSE,
                   file |-> l.internal_var_name \o S_nc,
                   saved |-> (input_timestep_hours = 6)]
    ELSE IF k = 5 THEN [src |-> l.da_current_agg, freq |-> S_M, method |-> S_mean,
                   resample |-> TRUE, depth |-> FALSE,
                   file |-> l.internal_var_name \o S_nc, saved |-> TRUE]
    ELSE [src |-> l.da_current_agg, freq |-> S_Y, method |-> S_mean,
                   resample |-> TRUE, depth |-> FALSE,
                   file |-> l.internal_var_name \o S_nc, saved |-> TRUE]

\* (mutant) the daily rate grid is written for daily input, too
DischargeStage_SaveDailyRate(k, l, input_timestep_hours) ==
    IF k = 1 THEN [src |-> l.da_original, freq |-> S_D, method |-> S_mean,
                   resample |-> (input_timestep_hours = 6), depth |-> TRUE,
                   file |-> l.internal_var_name \o S_mm \o S_nc, saved |-> TRUE]
    ELSE IF k = 2 THEN [src |-> l.da_mm, freq |-> S_M, method |-> S_sum,
                   resample |-> TRUE, depth |-> FALSE,
                   file |-> l.internal_var_name \o S_mm \o S_nc, saved |-> TRUE]
    ELSE IF k = 3 THEN [src |-> l.da_mm, freq |-> S_Y, method |-> S_sum,
                   resample |-> TRUE, depth |-> FALSE,
                   file |-> l.internal_var_name \o S_mm \o S_nc, saved |-> TRUE]
    ELSE IF k = 4 THEN [src |-> l.da_original, freq |-> S_D, method |-> S_mean,
                   resample |-> (input_timestep_hours = 6), depth |-> FALSE,
                   file |-> l.internal_var_name \o S_nc,
                   saved |-> TRUE]
    ELSE IF k = 5 THEN [src |-> l.da_current_agg, freq |-> S_M, method |-> S_mean,
                   resample |-> TRUE, depth |-> FALSE,
                   file |-> l.internal_var_name \o S_nc, saved |-> TRUE]
    ELSE [src |-> l.da_current_agg, freq |-> S_Y, method |-> S_mean,
                   resample |-> TRUE, depth |-> FALSE,
                   file |-> l.internal_var_name \o S_nc, saved |-> TRUE]

\* (mutant) the monthly rate is the sum of the daily rates
DischargeStage_RateSum(k, l, input_timestep_hours) ==
    IF k = 1 THEN [src |-> l.da_original, freq |-> S_D, method |-> S_mean,
                   resample |-> (input_timestep_hours = 6), depth |-> TRUE,
                   file |-> l.internal_var_name \o S_mm \o S_nc, saved |-> TRUE]
    ELSE IF k = 2 THEN [src |-> l.da_mm, freq |-> S_M, method |-> S_sum,
                   resample |-> TRUE, depth |-> FALSE,
                   file |-> l.internal_var_name \o S_mm \o S_nc, saved |-> TRUE]
    ELSE IF k = 3 THEN [src |-> l.da_mm, freq |-> S_Y, method |-> S_sum,
                   resample |-> TRUE, depth |-> FALSE,
                   file |-> l.internal_var_name \o S_mm \o S_nc, saved |-> TRUE]
    ELSE IF k = 4 THEN [src |-> l.da_original, freq |-> S_D, method |-> S_mean,
                   resample |-> (input_timestep_hours = 6), depth |-> FALSE,
                   file |-> l.internal_var_name \o S_nc,
                   saved |-> (input_timestep_hours = 6)]
    ELSE IF k = 5 THEN [src |-> l.da_current_agg, freq |-> S_M, method |-> S_sum,
                   resample |-> TRUE, depth |-> FALSE,
                   file |-> l.internal_var_name \o S_nc, saved |-> TRUE]
    ELSE [src |-> l.da_current_agg, freq |-> S_Y, method |-> S_mean,
                   resample |-> TRUE, depth |-> FALSE,
                   file |-> l.internal_var_name \o S_nc, saved |-> TRUE]

\* the six statements of the discharge branch that make a grid: lines 78-85,
\* 87-89, 91-93 (depth) and 98-101, 102-103, 104-105 (rate)
DischargeStage(k, l, input_timestep_hours) ==
    IF k = 1 THEN [src |-> l.da_original, freq |-> S_D, method |-> S_mean,
                   resample |-> (input_timestep_hours = 6), depth |-> TRUE,
                   file |-> l.internal_var_name \o S_mm \o S_nc, saved |-> TRUE]
    ELSE IF k = 2 THEN [src |-> l.da_mm, freq |-> S_M, method |-> S_sum,
                   resample |-> TRUE, depth |-> FALSE,
                   file |-> l.internal_var_name \o S_mm \o S_nc, saved |-> TRUE]
    ELSE IF k = 3 THEN [src |-> l.da_mm, freq |-> S_Y, method |-> S_sum,
                   resample |-> TRUE, depth |-> FALSE,
                   file |-> l.internal_var_name \o S_mm \o S_nc, saved |-> TRUE]
    ELSE IF k = 4 THEN [src |-> l.da_original, freq |-> S_D, method |-> S_mean,
                   resample |-> (input_timestep_hours = 6), depth |-> FALSE,
                   file |-> l.internal_var_name \o S_nc,
                   saved |-> (input_timestep_hours = 6)]
    ELSE IF k = 5 THEN [src |-> l.da_current_agg, freq |-> S_M, method |-> S_mean,
                   resample |-> TRUE, depth |-> FALSE,
                   file |-> l.internal_var_name \o S_nc, saved |-> TRUE]
    ELSE [src |-> l.da_current_agg, freq |-> S_Y, method |-> S_mean,
                   resample |-> TRUE, depth |-> FALSE,
                   file |-> l.internal_var_name \o S_nc, saved |-> TRUE]

LastStage(k) == k \notin 1..5

\* (mutant) without overwrite a grid file that exists is kept
DischargeGrid_KeepExisting(v, l, st, g) ==
    /\ loc' = [loc EXCEPT ![v].stage = l.stage + 1,
                          ![v].da_mm = IF l.stage \in 1..3 THEN g ELSE l.da_mm,
                          ![v].da_current_agg = IF l.stage \in 1..3 THEN l.da_current_agg ELSE g]
    /\ Commit(v, IF cfg.save_agg_nc_maps /\ st.saved
                    /\ (cfg.overwrite \/ PathJoin(nc_output_dirs(st.freq), st.file) \notin DOMAIN fs)
                 THEN save_netcdf_data(g, nc_output_dirs(st.freq), st.file)
                 ELSE <<>>)
    /\ pc' = [pc EXCEPT ![v] = IF LastStage(l.stage) THEN "done" ELSE "discharge"]

DischargeGrid(v, l, st, g) ==
    /\ loc' = [loc EXCEPT ![v].stage = l.stage + 1,
                          ![v].da_mm = IF l.stage \in 1..3 THEN g ELSE l.da_mm,
                          ![v].da_current_agg = IF l.stage \in 1..3 THEN l.da_current_agg ELSE g]
    /\ Commit(v, IF cfg.save_agg_nc_maps /\ st.saved
                 THEN save_netcdf_data(g, nc_output_dirs(st.freq), st.file)
                 ELSE <<>>)
    /\ pc' = [pc EXCEPT ![v] = IF LastStage(l.stage) THEN "done" ELSE "discharge"]

DischargeResampled(v, l, st, r) ==
    IF r.tag = "raise" THEN Raised(v)
    ELSE DischargeGrid(v, l, st,
                       IF st.depth THEN ToDepth(r.val, cfg.area_map, l.internal_var_name)
                       ELSE r.val)

DischargeStep(v, l, st) ==
    DischargeResampled(v, l, st,
                       IF st.resample THEN Resampler(st.src, st.freq, st.method, cfg.env)
                       ELSE Ok(st.src))

\* lines 74-108: one statement of the discharge branch
Discharge(v) ==
    /\ pc[v] = "discharge"
    /\ DischargeStep(v, loc[v], DischargeStage(loc[v].stage, loc[v], cfg.input_timestep_hours))
    /\ UNCHANGED <<cfg, native, mpc, aggVars, made>>

-----------------------------------------------------------------------------
(* __main__.py: main, from the task list on                                 *)

Range(f) == {f[i] : i \in DOMAIN f}

Main_at(at, i) == [at |-> at, i |-> i]

\* Python int() of a str: blanks around, a sign, decimal digits
DigitChars == <<"0","1","2","3","4","5","6","7","8","9">>
Unsigned(t) == IF t # <<>> /\ t[1] \in {"+", "-"} THEN Tail(t) ELSE t
IsDigits(t) == t # <<>> /\ \A i \in 1..Len(t) : t[i] \in Range(DigitChars)
IsIntLiteral(s) == IsDigits(Unsigned(Strip(s)))
RECURSIVE DecimalValue(_)
DecimalValue(t) ==
    IF t = <<>> THEN 0
    ELSE 10 * DecimalValue(SubSeq(t, 1, Len(t) - 1))
           + (CHOOSE d \in 0..9 : DigitChars[d + 1] = t[Len(t)])
Signed(t) == IF t[1] = "-" THEN 0 - DecimalValue(Tail(t)) ELSE DecimalValue(Unsigned(t))
int(s) == Signed(Strip(s))

\* config.py 58-61; 0 stands for the None of a missing key
TIMESTEP_SECONDS_TO_HOURS(sec) ==
    IF sec = 6 * 3600 THEN 6 ELSE IF sec = 24 * 3600 THEN 24 ELSE 0

\* lines 250-254: binding.get('DtSec') is None or a str; int() raises
\* TypeError for None and ValueError for a str that is no integer literal
TimestepSec(binding) ==
    IF "DtSec" \notin DOMAIN binding THEN Raise("TypeError")
    ELSE IF ~IsIntLiteral(binding.DtSec) THEN Raise("ValueError")
    ELSE Ok(int(binding.DtSec))

S_pp == <<"p","p">>
\* lines 269-275: 'pp' and, below it, the four series and three grid
\* directories
OutputDirs ==
    {[dir |-> S_pp, freq |-> <<>>]}
      \cup {ts_output_dirs(f) : f \in {S_6H, S_D, S_M, S_Y}}
      \cup {nc_output_dirs(f) : f \in {S_D, S_M, S_Y}}

\* (mutant) an unsupported timestep is not checked
MainOutcome_NoTimestepCheck(c) ==
    IF ~c.settings_loaded THEN Main_at("exit", 1)
    ELSE IF c.maps_path = "notdir" THEN Main_at("exit", 1)
    ELSE IF TimestepSec(c.binding).tag # "ok" THEN Main_at("exit", 1)
    ELSE IF c.tasks = <<>> THEN Main_at("exit", 0)
    ELSE IF c.num_workers > 1 /\ Len(c.tasks) > 1 THEN Main_at("pool", 0)
    ELSE Main_at("sequential", 0)

\* lines 205-308 in the order of the statements: sys.exit(1) when the settings
\* are not loaded, when --maps_path is given and is no directory, when DtSec
\* is no integer, when the timestep is not in TIMESTEP_SECONDS_TO_HOURS;
\* sys.exit(0) when no task is left; else the tasks go to a pool or are
\* called in turn.  With "exit", i is the exit status.
MainOutcome(c) ==
    IF ~c.settings_loaded THEN Main_at("exit", 1)
    ELSE IF c.maps_path = "notdir" THEN Main_at("exit", 1)
    ELSE IF TimestepSec(c.binding).tag # "ok" THEN Main_at("exit", 1)
    ELSE IF TIMESTEP_SECONDS_TO_HOURS(TimestepSec(c.binding).val) = 0 THEN Main_at("exit", 1)
    ELSE IF c.tasks = <<>> THEN Main_at("exit", 0)
    ELSE IF c.num_workers > 1 /\ Len(c.tasks) > 1 THEN Main_at("pool", 0)
    ELSE Main_at("sequential", 0)

Main ==
    /\ mpc.at = "main"
    /\ mpc' = MainOutcome(cfg)
    /\ made' = IF MainOutcome(cfg).at = "exit" THEN made ELSE made \cup OutputDirs
    /\ UNCHANGED <<cfg, native, fs, pc, loc, wlog, aggVars>>

\* lines 311-312: the next call once the last one returned; an exception of
\* process_variable leaves the loop and main
SequentialLoop ==
    /\ mpc.at = "sequential"
    /\ IF mpc.i = 0 THEN TRUE ELSE pc[cfg.tasks[mpc.i]] \in Terminal \cup {"raised"}
    /\ IF mpc.i > 0 /\ pc[cfg.tasks[mpc.i]] = "raised"
       THEN mpc' = Main_at("raised", mpc.i) /\ UNCHANGED pc
       ELSE IF mpc.i = Len(cfg.tasks)
       THEN mpc' = Main_at("complete", mpc.i) /\ UNCHANGED pc
       ELSE /\ mpc' = Main_at("sequential", mpc.i + 1)
            /\ pc' = [pc EXCEPT ![cfg.tasks[mpc.i + 1]] = "call"]
    /\ UNCHANGED <<cfg, native, fs, loc, wlog, aggVars, made>>

Running == {v \in DOMAIN pc : pc[v] \notin Terminal \cup {"raised", "queued"}}

\* lines 307-308: a free worker of the pool takes the next task of the list
\* (pool.map hands out chunks of one task for lists this short)
PoolTake ==
    /\ mpc.at = "pool"
    /\ Cardinality(Running) < cfg.num_workers
    /\ \E i \in 1..Len(cfg.tasks) :
         /\ pc[cfg.tasks[i]] = "queued"
         /\ \A j \in 1..(i - 1) : pc[cfg.tasks[j]] # "queued"
         /\ pc' = [pc EXCEPT ![cfg.tasks[i]] = "call"]
    /\ UNCHANGED <<cfg, native, fs, loc, wlog, mpc, aggVars, made>>

\* line 308: map returns when every task has ended, and raises again what a
\* task raised
PoolJoin ==
    /\ mpc.at = "pool"
    /\ \A v \in DOMAIN pc : pc[v] \in Terminal \cup {"raised"}
    /\ mpc' = IF \E v \in DOMAIN pc : pc[v] = "raised"
              THEN Main_at("raised", 0) ELSE Main_at("complete", 0)
    /\ UNCHANGED <<cfg, native, fs, pc, loc, wlog, aggVars, made>>

\* The process of the sequential loop dies (kill, power loss) between two
\* statements of process_variable: what is on disk stays, the rest is lost.
\* cfg.crash is "never", "may" (one crash may happen) or "happened".
Crash(v) ==
    /\ cfg.crash = "may"
    /\ mpc.at = "sequential"
    /\ pc[v] \in {"call", "classify", "resume", "series", "aggregate"}
    /\ pc' = [pc EXCEPT ![v] = "crashed"]
    /\ mpc' = Main_at("crashed", mpc.i)
    /\ cfg' = [cfg EXCEPT !.crash = "happened"]
    /\ UNCHANGED <<native, fs, loc, wlog, aggVars, made>>

\* the tool is started again with the same arguments over the same tree
LaterRun ==
    /\ mpc.at = "crashed"
    /\ pc' = [v \in DOMAIN pc |-> "queued"]
    /\ loc' = [v \in DOMAIN pc |-> NoLocals]
    /\ wlog' = [v \in DOMAIN pc |-> <<>>]
    /\ mpc' = Main_at("main", 0)
    /\ made' = {}
    /\ UNCHANGED <<cfg, native, fs, aggVars>>

-----------------------------------------------------------------------------
(* The runs: configurations, input files and earlier output                 *)

MaxWorkers == 2      \* --num_workers: 1..MaxWorkers

VarA == <<"A">>
VarB == <<"B">>
NameX == <<"x">>
NameY == <<"y">>

\* an array as the loader returns it: lazy, its values not computed
LazyGrid(nm, code, first, n) ==
    [named |-> TRUE, name |-> nm, dims |-> {"time", "lat", "lon"},
     code |-> code, first |-> first, n |-> n, vals |-> <<>>,
     graph |-> <<<<"open", "input">>>>]

\* simulations of three years, of forty days and of two steps
NativeGrids(nm, hours) ==
    IF hours = 6
    THEN { LazyGrid(nm, "6H", Stamp(2023, 12, 31, 6), 4384),
           LazyGrid(nm, "6H", Stamp(2024, 1, 1, 6), 160),
           LazyGrid(nm, "6H", Stamp(2024, 1, 1, 6), 2) }
    ELSE { LazyGrid(nm, "D", Stamp(2024, 1, 1, 0), 1096),
           LazyGrid(nm, "D", Stamp(2024, 1, 1, 0), 40),
           LazyGrid(nm, "D", Stamp(2024, 1, 1, 0), 2) }

LongGrid(nm, hours) ==
    IF hours = 6 THEN LazyGrid(nm, "6H", Stamp(2023, 12, 31, 6), 4384)
    ELSE LazyGrid(nm, "D", Stamp(2024, 1, 1, 0), 1096)

\* a grid file an earlier run left: of three years, of two periods, or one
\* that cannot be opened
Flavours == {"long", "short", "unreadable"}
EarlierGrid(nm, freq, flavour) ==
    IF flavour = "unreadable" THEN Unreadable
    ELSE IF freq = S_D
    THEN LazyGrid(nm, "D", Stamp(2024, 1, 1, 0), IF flavour = "long" THEN 1096 ELSE 2)
    ELSE IF freq = S_M
    THEN LazyGrid(nm, "M", Stamp(2024, 1, 31, 0), IF flavour = "long" THEN 36 ELSE 2)
    ELSE LazyGrid(nm, "A", Stamp(2024, 12, 31, 0), IF flavour = "long" THEN 3 ELSE 1)
EarlierFiles(nm, present, flavour) ==
    [p \in {GridFile(freq, nm) : freq \in present} |-> EarlierGrid(nm, p.freq, flavour)]

AreaMap == [vals |-> <<R(2), R(2), R(4)>>]

\* what the settings make of a variable: its class, the method of the fluxes
\* and whether the area map could be loaded
Cases ==
    { [kind |-> "flux", fluxes_agg_type |-> S_sum, area_map |-> NoneDA],
      [kind |-> "flux", fluxes_agg_type |-> S_bogus, area_map |-> NoneDA],
      [kind |-> "state", fluxes_agg_type |-> S_sum, area_map |-> NoneDA],
      [kind |-> "discharge", fluxes_agg_type |-> S_sum, area_map |-> AreaMap],
      [kind |-> "discharge", fluxes_agg_type |-> S_sum, area_map |-> NoneDA],
      [kind |-> "other", fluxes_agg_type |-> S_sum, area_map |-> NoneDA],
      [kind |-> "discharge+flux", fluxes_agg_type |-> S_sum, area_map |-> AreaMap],
      [kind |-> "discharge+state", fluxes_agg_type |-> S_sum, area_map |-> NoneDA],
      [kind |-> "flux+state", fluxes_agg_type |-> S_sum, area_map |-> NoneDA] }

\* the var_name lists of the settings that name a variable of that kind
Listed(kind) ==
    IF kind = "discharge+flux" THEN {"discharge", "flux"}
    ELSE IF kind = "discharge+state" THEN {"discharge", "state"}
    ELSE IF kind = "flux+state" THEN {"flux", "state"}
    ELSE {kind}

Envs == {{}, {S_M}, {S_Y}}

\* config_for_workers (lines 290-298) with the task list and --num_workers
Config(tasks, kinds, hours, overwrite, save, fluxes_agg_type, area_map, env, num_workers) ==
    [fluxes_vars |-> {v \in Range(tasks) : "flux" \in Listed(kinds[v])},
     fluxes_agg_type |-> fluxes_agg_type,
     states_vars |-> {v \in Range(tasks) : "state" \in Listed(kinds[v])},
     states_agg_type |-> S_mean,
     discharge_vars |-> {v \in Range(tasks) : "discharge" \in Listed(kinds[v])},
     area_map |-> area_map,
     input_timestep_hours |-> hours,
     spatial_agg_methods_for_timeseries |-> <<S_mean, S_max, S_min, S_median>>,
     save_agg_nc_maps |-> save, overwrite |-> overwrite,
     tasks |-> tasks, num_workers |-> num_workers, env |-> env,
     settings_loaded |-> TRUE, maps_path |-> "none", crash |-> "never",
     binding |-> [DtSec |-> IF hours = 6 THEN <<"2","1","6","0","0">>
                            ELSE <<"8","6","4","0","0">>]]

RunStart(tasks) ==
    /\ pc = [v \in Range(tasks) |-> "queued"]
    /\ loc = [v \in Range(tasks) |-> NoLocals]
    /\ wlog = [v \in Range(tasks) |-> <<>>]
    /\ mpc = Main_at("main", 0)
    /\ made = {}
    /\ args = <<>> /\ out = [tag |-> "none"] /\ apc = "off"

\* one variable, in every configuration
InitOne ==
    \E hours \in {6, 24}, overwrite \in BOOLEAN, save \in BOOLEAN, c \in Cases,
       env \in Envs, present \in SUBSET {S_D, S_M, S_Y}, flavour \in Flavours :
      \E g \in NativeGrids(NameX, hours) \cup {NoneDA} :
        /\ cfg = Config(<<VarA>>, (VarA :> c.kind), hours, overwrite, save,
                        c.fluxes_agg_type, c.area_map, env, 1)
        /\ native = (VarA :> g)
        /\ fs = EarlierFiles(NameX, present, flavour)
        /\ RunStart(<<VarA>>)

\* two variables, called in turn or given to a pool; the files of the two
\* may hold arrays of the same name, or of names that differ by '_mm'
InitTwo ==
    \E hours \in {6, 24}, overwrite \in BOOLEAN, save \in BOOLEAN,
       num_workers \in 1..MaxWorkers, kindA \in {"flux", "discharge"},
       kindB \in {"flux", "state"}, fluxes_agg_type \in {S_sum, S_bogus},
       nameB \in {NameY, NameX, NameX \o S_mm}, loadable \in BOOLEAN :
        /\ cfg = Config(<<VarA, VarB>>, (VarA :> kindA) @@ (VarB :> kindB), hours,
                        overwrite, save, fluxes_agg_type, AreaMap, {}, num_workers)
        /\ native = (VarA :> IF loadable THEN LongGrid(NameX, hours) ELSE NoneDA)
                      @@ (VarB :> LongGrid(nameB, hours))
        /\ fs = <<>>
        /\ RunStart(<<VarA, VarB>>)

\* no variable to process
InitNone ==
    /\ cfg = Config(<<>>, <<>>, 24, FALSE, FALSE, S_sum, NoneDA, {}, 1)
    /\ native = <<>>
    /\ fs = <<>>
    /\ RunStart(<<>>)

\* one discharge variable whose rates are known numbers: MaxRateDays days
\* from 2023-12-30 (the end of a month and of a year inside), either a
\* constant rate or one that differs from step to step and cell to cell
MaxRateDays == 3
RateRows(n, shape) ==
    [i \in 1..n |-> [c \in 1..3 |-> IF shape = "constant" THEN R(3) ELSE R(((i + c) % 5) + 1)]]
RateGrid(nm, hours, shape) ==
    [named |-> TRUE, name |-> nm, dims |-> {"time", "lat", "lon"},
     code |-> IF hours = 6 THEN "6H" ELSE "D", first |-> Stamp(2023, 12, 30, 0),
     n |-> IF hours = 6 THEN 4 * MaxRateDays ELSE MaxRateDays,
     vals |-> RateRows(IF hours = 6 THEN 4 * MaxRateDays ELSE MaxRateDays, shape),
     graph |-> <<<<"open", "input">>>>]

InitDischarge ==
    \E hours \in {6, 24}, overwrite \in BOOLEAN, save \in BOOLEAN,
       shape \in {"constant", "varying"}, present \in SUBSET {S_D, S_M, S_Y} :
        /\ cfg = Config(<<VarA>>, (VarA :> "discharge"), hours, overwrite, save,
                        S_sum, AreaMap, {}, 1)
        /\ native = (VarA :> RateGrid(NameX, hours, shape))
        /\ fs = EarlierFiles(NameX, present, "short")
        /\ RunStart(<<VarA>>)

\* the settings main reads: the XML loads or not, --maps_path is absent, a
\* directory or something else, DtSec is absent or one of these strings
DtSecValues ==
    {<<"2","1","6","0","0">>, <<"8","6","4","0","0">>, <<" ","8","6","4","0","0"," ">>,
     <<"3","6","0","0">>, <<"8","6","4","0","0",".","0">>, <<"d","a","y">>, <<>>,
     <<"-","1">>}
Bindings == {<<>>} \cup {[DtSec |-> d] : d \in DtSecValues}
HoursRead(binding) ==
    IF TimestepSec(binding).tag = "ok" /\ TIMESTEP_SECONDS_TO_HOURS(TimestepSec(binding).val) # 0
    THEN TIMESTEP_SECONDS_TO_HOURS(TimestepSec(binding).val) ELSE 24

InitSettings ==
    \E loaded \in BOOLEAN, maps_path \in {"none", "dir", "notdir"},
       binding \in Bindings, tasks \in {<<>>, <<VarA>>} :
        /\ cfg = [Config(tasks, (VarA :> "flux"), HoursRead(binding), FALSE, TRUE,
                         S_sum, NoneDA, {}, 1)
                    EXCEPT !.settings_loaded = loaded, !.maps_path = maps_path,
                           !.binding = binding]
        /\ native = [v \in Range(tasks) |-> LongGrid(NameX, HoursRead(binding))]
        /\ fs = <<>>
        /\ RunStart(tasks)

\* one flux or state variable over an empty output tree, grids persisted,
\* overwrite off; the process may die once and the tool is started again
InitCrash ==
    \E hours \in {6, 24}, kind \in {"flux", "state"} :
        /\ cfg = [Config(<<VarA>>, (VarA :> kind), hours, FALSE, TRUE, S_sum, NoneDA, {}, 1)
                    EXCEPT !.crash = "may"]
        /\ native = (VarA :> LongGrid(NameX, hours))
        /\ fs = <<>>
        /\ RunStart(<<VarA>>)

Init == InitOne \/ InitTwo \/ InitNone \/ InitDischarge \/ InitSettings \/ InitCrash

Next ==
    \/ Main
    \/ SequentialLoop
    \/ PoolTake
    \/ PoolJoin
    \/ \E v \in DOMAIN pc : LoadNative(v)
    \/ \E v \in DOMAIN pc : Classify(v)
    \/ \E v \in DOMAIN pc : Resume(v)
    \/ \E v \in DOMAIN pc : Series(v)
    \/ \E v \in DOMAIN pc : Aggregate(v)
    \/ \E v \in DOMAIN pc : Discharge(v)
    \/ \E v \in DOMAIN pc : Crash(v)
    \/ LaterRun

Spec == Init /\ [][Next]_vars

-----------------------------------------------------------------------------
(* Properties of process_variable and main (under Spec)                     *)

Standard(v) == v \notin cfg.discharge_vars /\ v \in cfg.fluxes_vars \cup cfg.states_vars
NativeCode == IF cfg.input_timestep_hours = 6 THEN S_6H ELSE S_D
GridExists(v, freq) ==
    PathJoin(nc_output_dirs(freq), loc[v].internal_var_name \o S_nc) \in DOMAIN fs
SeriesPath(v, freq) == PathJoin(ts_output_dirs(freq), v)
GridPath(v, freq) == PathJoin(nc_output_dirs(freq), loc[v].internal_var_name \o S_nc)

\* the step of task v that leaves position p
Leaves(v, p) == pc[v] = p /\ pc'[v] \notin {p, "crashed"}

\* after the step, the chain of v starts at freq with grid da, or v has
\* failed because there is no grid
StartsFrom(v, freq, da) ==
    /\ loc'[v].current_freq_code = freq
    /\ loc'[v].da_current_agg = da
    /\ pc'[v] = IF da = NoneDA THEN "failed" ELSE "series"

\* C1: the start of the chain.  With overwrite the native grid; else, in
\* this order: the yearly grid file exists - the variable is done; the
\* monthly file exists - start at monthly from that file; the daily file
\* exists and the native frequency is 6-hourly - start at daily from that
\* file; else the native grid.  A daily file is no resume point for daily
\* input.
C1_StartResolution ==
    [][\A v \in DOMAIN pc :
         Leaves(v, "resume") =>
            IF cfg.overwrite THEN StartsFrom(v, NativeCode, loc[v].da_original)
            ELSE IF GridExists(v, S_Y) THEN pc'[v] = "done"
            ELSE IF GridExists(v, S_M)
            THEN StartsFrom(v, S_M, load_lisflood_variable_data(fs, GridPath(v, S_M)))
            ELSE IF GridExists(v, S_D) /\ cfg.input_timestep_hours = 6
            THEN StartsFrom(v, S_D, load_lisflood_variable_data(fs, GridPath(v, S_D)))
            ELSE StartsFrom(v, NativeCode, loc[v].da_original)]_vars

\* daily input, a daily grid file of an earlier run and no coarser one: the
\* chain has started at the native grid
C1_Witness ==
    \E v \in DOMAIN pc :
        /\ pc[v] = "series" /\ ~loc[v].chained
        /\ ~cfg.overwrite /\ cfg.input_timestep_hours = 24
        /\ GridExists(v, S_D) /\ ~GridExists(v, S_M) /\ ~GridExists(v, S_Y)
        /\ loc[v].current_freq_code = S_D
        /\ loc[v].da_current_agg = loc[v].da_original

\* C2: with the yearly grid file present and overwrite off the variable is
\* done at once: no grid is aggregated, no file is written or changed, and
\* nothing happens for it afterwards.
C2_YearlyExistsNoWork ==
    [][\A v \in DOMAIN pc :
         /\ (Leaves(v, "resume") /\ ~cfg.overwrite /\ GridExists(v, S_Y)) =>
               /\ pc'[v] = "done"
               /\ fs' = fs
               /\ wlog'[v] = <<>>
               /\ loc'[v] = loc[v]
               /\ loc[v].da_current_agg = NoneDA
         /\ pc[v] = "done" => (pc'[v] = "done" /\ wlog'[v] = wlog[v] /\ loc'[v] = loc[v])]_vars

\* a standard variable is done with nothing written and nothing aggregated,
\* its yearly grid file being there
C2_Witness ==
    \E v \in DOMAIN pc :
        /\ Standard(v) /\ pc[v] = "done"
        /\ ~cfg.overwrite /\ GridExists(v, S_Y)
        /\ wlog[v] = <<>>
        /\ loc[v].da_current_agg = NoneDA
        /\ fs = EarlierFiles(loc[v].internal_var_name, {S_D, S_Y}, "long")

Resolutions == <<S_6H, S_D, S_M, S_Y>>
Coarser(s) ==
    LET i == CHOOSE k \in 1..4 : Resolutions[k] = s
    IN  SubSeq(Resolutions, i + 1, 4)

\* the writes of a whole chain from s: the series at s, then per coarser
\* resolution the grid (when grids are saved) and after it the series
ChainWrites(v, s) ==
    LET per == IF cfg.save_agg_nc_maps THEN 2 ELSE 1
        A   == Coarser(s)
    IN  [i \in 1..(1 + per * Len(A)) |->
            IF i = 1 THEN SeriesPath(v, s)
            ELSE IF cfg.save_agg_nc_maps /\ (i - 2) % per = 0
            THEN GridPath(v, A[((i - 2) \div per) + 1])
            ELSE SeriesPath(v, A[((i - 2) \div per) + 1])]

IsPrefix(a, b) == Len(a) <= Len(b) /\ a = SubSeq(b, 1, Len(a))

\* the resolution the chain of v started at
StartOf(v, s) ==
    /\ s \in {S_6H, S_D, S_M}
    /\ ~loc[v].is_resumed => s = NativeCode
    /\ loc[v].is_resumed =>
          /\ s \in {S_D, S_M} /\ GridExists(v, s)
          /\ loc[v].da_current_agg.graph[1] = <<"open", GridPath(v, s)>>

\* the grid in hand was made from the start grid by one resample per step,
\* each from the grid before it
StepByStep(v, s) ==
    LET g == loc[v].da_current_agg.graph
        A == Coarser(s)
    IN  /\ Len(g) - 1 \in 0..Len(A)
        /\ \A k \in 1..(Len(g) - 1) :
              g[k + 1] = <<"resample", A[k], Lower(Strip(loc[v].temporal_agg_method))>>
        /\ loc[v].current_freq_code = (IF Len(g) = 1 THEN s ELSE A[Len(g) - 1])

\* C3: from the start s the series at s is written first; then the chain
\* goes one resolution at a time, 6H -> D -> M -> Y, each grid resampled
\* from the grid of the step before, the grid written (when grids are saved)
\* before the series of its resolution; no grid is written at s.
C3_ChainOrder ==
    \A v \in DOMAIN pc :
        (Standard(v) /\ pc[v] \in {"series", "aggregate", "done", "failed", "raised"}
           /\ loc[v].da_current_agg # NoneDA) =>
            \E s \in {S_6H, S_D, S_M} :
                /\ StartOf(v, s)
                /\ IsPrefix(wlog[v], ChainWrites(v, s))
                /\ loc[v].chained => (wlog[v] # <<>> /\ wlog[v][1] = SeriesPath(v, s))
                /\ GridPath(v, s) \notin Range(wlog[v])
                /\ StepByStep(v, s)
                /\ pc[v] = "done" => wlog[v] = ChainWrites(v, s)

\* a 6-hourly variable is done, its grids saved: seven writes, the series
\* of each resolution after its grid
C3_Witness ==
    \E v \in DOMAIN pc :
        /\ Standard(v) /\ pc[v] = "done"
        /\ cfg.input_timestep_hours = 6 /\ cfg.save_agg_nc_maps
        /\ wlog[v] = << SeriesPath(v, S_6H),
                        GridPath(v, S_D), SeriesPath(v, S_D),
                        GridPath(v, S_M), SeriesPath(v, S_M),
                        GridPath(v, S_Y), SeriesPath(v, S_Y) >>

\* the Grid Aggregator returns a null grid for the step v is about to make
NullGrid(v) ==
    aggregate_data_to_netcdf(loc[v].da_current_agg, Head(loc[v].chain),
                             loc[v].temporal_agg_method, cfg.env) = Ok(NoneDA)

\* C4: a null grid from the Grid Aggregator ends the chain of the variable:
\* nothing is written for that resolution or a coarser one, what was written
\* stays, process_variable returns, and nothing happens for the variable
\* afterwards.
C4_NullGridHalts ==
    [][\A v \in DOMAIN pc :
         /\ (Leaves(v, "aggregate") /\ NullGrid(v)) =>
               /\ pc'[v] = "failed"
               /\ fs' = fs
               /\ wlog'[v] = wlog[v]
               /\ \A i \in 1..Len(wlog[v]) :
                     wlog[v][i].freq \notin Range(loc[v].chain)
         /\ pc[v] = "failed" => (pc'[v] = "failed" /\ wlog'[v] = wlog[v])]_vars

\* the monthly step of a 6-hourly variable gave no grid: the daily grid and
\* series are written, nothing coarser
C4_Witness ==
    \E v \in DOMAIN pc :
        /\ pc[v] = "failed" /\ loc[v].chained
        /\ loc[v].chain = <<S_M, S_Y>> /\ S_M \in cfg.env
        /\ wlog[v] = <<SeriesPath(v, S_6H), GridPath(v, S_D), SeriesPath(v, S_D)>>

\* C5 as stated: when the run has ended, every variable has been processed
\* and is in a terminal state (done, skipped or failed), in turn or in a
\* pool, whatever went wrong for another variable.
C5_EveryVariableEnds ==
    mpc.at \in {"complete", "raised"} =>
        /\ mpc.at = "complete"
        /\ \A v \in DOMAIN pc : pc[v] \in Terminal

\* the grid files the resume check of v looks for
ResumePaths(v) ==
    IF Standard(v) /\ loc[v].internal_var_name # <<>>
    THEN {GridPath(v, S_D), GridPath(v, S_M), GridPath(v, S_Y)}
    ELSE {}

\* C6 as stated: no path written by one variable is written by another or
\* read by the resume check of another.
C6_NoSharedPath ==
    \A v, w \in DOMAIN pc :
        v # w => Range(wlog[v]) \cap (Range(wlog[w]) \cup ResumePaths(w)) = {}

\* the positions of wlog[v] at which a series file was written
SeriesWrites(v) ==
    {i \in 1..Len(wlog[v]) : \E f \in {S_6H, S_D, S_M, S_Y} : wlog[v][i].dir = ts_output_dirs(f).dir}

\* C12: the series of one variable at two different frequencies never
\* collide: whenever process_variable has written the series of two
\* frequencies, they went to different directories or their keys differ.
C12_NoKeyCollision ==
    \A v \in DOMAIN pc :
        \A i, j \in SeriesWrites(v) :
            wlog[v][i].freq # wlog[v][j].freq =>
                \/ wlog[v][i].dir # wlog[v][j].dir
                \/ DOMAIN fs[wlog[v][i]] \cap DOMAIN fs[wlog[v][j]] = {}

\* a variable has written its daily and its monthly series, both under the
\* key '<name>_mean', into the directories 'dly_TS' and 'mly_TS'
C12_Witness ==
    \E v \in DOMAIN pc :
        /\ {SeriesPath(v, S_D), SeriesPath(v, S_M)} \subseteq Range(wlog[v])
        /\ \E key \in DOMAIN fs[SeriesPath(v, S_D)] : key \in DOMAIN fs[SeriesPath(v, S_M)]
        /\ SeriesPath(v, S_D).dir = <<"d","l","y","_","T","S">>
        /\ SeriesPath(v, S_M).dir = <<"m","l","y","_","T","S">>

\* the temporal methods of the resample operations of a task graph
MethodsOfGraph(graph) == {graph[i][3] : i \in ResampleOps(graph)}

\* the temporal methods that made the file content written at path p
MethodsOfContent(p, content) ==
    IF \E f \in {S_6H, S_D, S_M, S_Y} : p.dir = ts_output_dirs(f).dir
    THEN UNION {MethodsOfGraph(content[key].graph) : key \in DOMAIN content}
    ELSE MethodsOfGraph(content.graph)

\* the method the settings give a variable that is no discharge variable
MethodFor(v) ==
    IF v \in cfg.fluxes_vars THEN cfg.fluxes_agg_type ELSE cfg.states_agg_type

InStandardChain(v) == pc[v] \in {"resume", "series", "aggregate", "done", "failed", "raised"}

\* a variable is handled as exactly one of discharge, flux and state
OneClass(v) ==
    /\ v \in cfg.discharge_vars =>
         /\ ~InStandardChain(v) \/ pc[v] \in {"done", "raised"}
         /\ loc[v].temporal_agg_method = NoLocals.temporal_agg_method
         /\ ~loc[v].chained /\ ~loc[v].is_resumed
         /\ \A f \in {S_6H, S_D, S_M, S_Y} : SeriesPath(v, f) \notin Range(wlog[v])
    /\ v \notin cfg.discharge_vars =>
         /\ pc[v] # "discharge" /\ loc[v].stage = 0 /\ loc[v].da_mm = NoneDA
         /\ (InStandardChain(v) \/ wlog[v] # <<>>) =>
              /\ v \in cfg.fluxes_vars \cup cfg.states_vars
              /\ loc[v].temporal_agg_method = MethodFor(v)
         /\ loc[v].da_current_agg # NoneDA =>
              MethodsOfGraph(loc[v].da_current_agg.graph) \subseteq {MethodFor(v)}

\* what a step of a flux or state variable writes was made with its method
WritesWithMethod(v) ==
    (Standard(v) /\ Len(wlog'[v]) > Len(wlog[v])) =>
        MethodsOfContent(wlog'[v][Len(wlog'[v])], fs'[wlog'[v][Len(wlog'[v])]])
            \subseteq {MethodFor(v)}

\* C19: a variable of the discharge list is handled as discharge even when
\* the flux or state list names it too; otherwise a variable of the flux list
\* gets the flux method, otherwise one of the state list the state method;
\* that method, unchanged, makes every series and every grid of the chain.
C19_OneClass ==
    [][\A v \in DOMAIN pc : OneClass(v)' /\ WritesWithMethod(v)]_vars

\* a variable named in the flux and in the state list has been processed as
\* a flux: its yearly grid was made by 'sum' steps, the state method is 'mean'
C19_Witness ==
    \E v \in DOMAIN pc :
        /\ v \in cfg.fluxes_vars \cap cfg.states_vars
        /\ cfg.fluxes_agg_type = S_sum /\ cfg.states_agg_type = S_mean
        /\ pc[v] = "done" /\ loc[v].current_freq_code = S_Y
        /\ loc[v].temporal_agg_method = S_sum
        /\ MethodsOfGraph(loc[v].da_current_agg.graph) = {S_sum}
        /\ SeriesPath(v, S_Y) \in Range(wlog[v])

\* the three cases of the claim
Unloadable(v) == native[v] = NoneDA
NoAreaGrid(v) == v \in cfg.discharge_vars /\ cfg.area_map = NoneDA
Unlisted(v) == v \notin cfg.discharge_vars \cup cfg.fluxes_vars \cup cfg.states_vars
SkipCase(v) == Unloadable(v) \/ NoAreaGrid(v) \/ Unlisted(v)

\* such a variable is waiting, being looked at, or skipped, and has written
\* nothing
NothingDone(v) ==
    /\ pc[v] \in {"queued", "call", "classify", "skipped"}
    /\ Unloadable(v) => pc[v] # "classify"
    /\ wlog[v] = <<>>
    /\ loc[v].da_current_agg = NoneDA /\ loc[v].da_mm = NoneDA

\* the step that ends its process_variable call returns normally
EndsSkipped(v) ==
    (pc'[v] # pc[v] /\ pc[v] \in {"call", "classify"}) =>
        /\ fs' = fs /\ wlog' = wlog
        /\ pc'[v] = "skipped" \/ (pc[v] = "call" /\ pc'[v] = "classify" /\ ~Unloadable(v))

\* C20: a variable whose file cannot be loaded, a discharge variable without
\* an area grid, and a variable of none of the lists end skipped:
\* process_variable returns without an exception and has written no series
\* and no grid.
C20_SkippedWritesNothing ==
    [][\A v \in DOMAIN pc : SkipCase(v) => (NothingDone(v)' /\ EndsSkipped(v))]_vars

\* the run is complete; its only variable, a loadable discharge variable
\* without an area grid, was skipped and no file was written
C20_Witness ==
    \E v \in DOMAIN pc :
        /\ NoAreaGrid(v) /\ ~Unloadable(v)
        /\ pc[v] = "skipped" /\ wlog[v] = <<>>
        /\ mpc.at = "complete"
        /\ \A p \in DOMAIN fs : p \notin {GridPath(v, S_D), GridPath(v, S_M), GridPath(v, S_Y)}

\* the grid of the calendar periods of da at frequency F, each cell reduced
\* by red over the stamps of the period
PeriodGrid(da, F, red(_)) ==
    LET ax == [code |-> FreqCode(F), first |-> LabelOf(F, TimeAt(da, 1)),
               n |-> Cardinality(Labels(da, F))]
    IN  [code |-> ax.code, first |-> ax.first, n |-> ax.n,
         vals |-> [j \in 1..ax.n |->
                     [c \in 1..Len(da.vals[1]) |->
                        LET cell(i) == da.vals[i][c]
                        IN  red(AsSeq(Bucket(da, F, TimeAt(ax, j)), cell))]]]
MeanOf(s) == RDiv(SeqSum(s), R(Len(s)))
SumOf(s) == SeqSum(s)
AxisOf(da) == [code |-> da.code, first |-> da.first, n |-> da.n, vals |-> da.vals]

\* the daily rate, and the depths the claim states, from the native rates
DailyRate(g, hours) == IF hours = 6 THEN PeriodGrid(g, S_D, MeanOf) ELSE AxisOf(g)
DepthOf(rate, area) ==
    [rate EXCEPT !.vals = [i \in 1..rate.n |->
                             [c \in 1..Len(rate.vals[i]) |->
                                RDiv(RMul(RMul(rate.vals[i][c], R(86400)), R(1000)), area[c])]]]
DailyDepth(v) == DepthOf(DailyRate(native[v], cfg.input_timestep_hours), cfg.area_map.vals)
MonthlyDepth(v) == PeriodGrid(DailyDepth(v), S_M, SumOf)
YearlyDepth(v) == PeriodGrid(MonthlyDepth(v), S_Y, SumOf)

\* a discharge variable with known rates in its discharge branch
NumericDischarge(v) ==
    /\ v \in cfg.discharge_vars /\ loc[v].stage >= 1
    /\ IF native[v] = NoneDA THEN FALSE ELSE native[v].vals # <<>>
DepthFile(v, F) == PathJoin(nc_output_dirs(F), loc[v].internal_var_name \o S_mm \o S_nc)

\* C21: the daily depth of every cell is daily_rate * 86400 * 1000 / area,
\* the daily rate of 6-hour data being the mean of the day's rates; the
\* monthly depth is the sum of the month's daily depths and the yearly depth
\* the sum of the year's monthly depths; a constant rate r over area a gives
\* r * 86400 * 1000 / a per day.
C21_DepthPath ==
    \A v \in DOMAIN pc :
        NumericDischarge(v) =>
            /\ loc[v].stage = 2 => AxisOf(loc[v].da_mm) = DailyDepth(v)
            /\ loc[v].stage = 3 => AxisOf(loc[v].da_mm) = MonthlyDepth(v)
            /\ loc[v].stage >= 4 => AxisOf(loc[v].da_mm) = YearlyDepth(v)
            /\ (loc[v].stage >= 4 /\ cfg.save_agg_nc_maps) =>
                 /\ AxisOf(fs[DepthFile(v, S_D)]) = DailyDepth(v)
                 /\ AxisOf(fs[DepthFile(v, S_M)]) = MonthlyDepth(v)
                 /\ AxisOf(fs[DepthFile(v, S_Y)]) = YearlyDepth(v)
                 /\ (\A i \in 1..native[v].n : \A c \in 1..3 : native[v].vals[i][c] = R(3)) =>
                      \A j \in 1..fs[DepthFile(v, S_D)].n : \A c \in 1..3 :
                          fs[DepthFile(v, S_D)].vals[j][c]
                              = RDiv(R(3 * 86400 * 1000), cfg.area_map.vals[c])

\* 6-hour rates that differ from step to step: the three depth grids are
\* written, three days, two months, two years
C21_Witness ==
    \E v \in DOMAIN pc :
        /\ NumericDischarge(v) /\ pc[v] = "done" /\ cfg.save_agg_nc_maps
        /\ cfg.input_timestep_hours = 6
        /\ native[v].vals[1] # native[v].vals[2]
        /\ fs[DepthFile(v, S_D)].n = 3
        /\ fs[DepthFile(v, S_M)].n = 2
        /\ fs[DepthFile(v, S_Y)].n = 2
        /\ fs[DepthFile(v, S_M)].vals[1][1]
             = RAdd(fs[DepthFile(v, S_D)].vals[1][1], fs[DepthFile(v, S_D)].vals[2][1])

\* the rates the claim states, from the native rates
MonthlyRate(v) ==
    PeriodGrid(DailyRate(native[v], cfg.input_timestep_hours), S_M, MeanOf)
YearlyRate(v) == PeriodGrid(MonthlyRate(v), S_Y, MeanOf)
RateFile(v, F) == PathJoin(nc_output_dirs(F), loc[v].internal_var_name \o S_nc)
OpsOf(graph) == {graph[i][1] : i \in 1..Len(graph)}
Constant(g, x) == \A i \in 1..g.n : \A c \in 1..Len(g.vals[i]) : g.vals[i][c] = x

\* C22: the rate path takes the mean at every step, each step from the grid
\* of the step before (6-hour to daily only for 6-hour data, daily to monthly,
\* monthly to yearly, so the yearly rate is the mean of the monthly means); it
\* is never converted to depth or summed, and a constant rate stays that rate
\* at every resolution.
C22_RatePath ==
    \A v \in DOMAIN pc :
        (NumericDischarge(v) /\ loc[v].stage >= 5) =>
            /\ loc[v].stage = 5 =>
                 AxisOf(loc[v].da_current_agg) = DailyRate(native[v], cfg.input_timestep_hours)
            /\ loc[v].stage = 6 => AxisOf(loc[v].da_current_agg) = MonthlyRate(v)
            /\ loc[v].stage >= 7 => AxisOf(loc[v].da_current_agg) = YearlyRate(v)
            /\ OpsOf(loc[v].da_current_agg.graph) \subseteq {"open", "resample"}
            /\ MethodsOfGraph(loc[v].da_current_agg.graph) \subseteq {S_mean}
            /\ Len(loc[v].da_current_agg.graph)
                 = (IF cfg.input_timestep_hours = 6 THEN 2 ELSE 1)
                     + (IF loc[v].stage >= 7 THEN 2 ELSE loc[v].stage - 5)
            /\ loc[v].da_current_agg.name = loc[v].internal_var_name
            /\ Constant(native[v], R(3)) => Constant(loc[v].da_current_agg, R(3))
            /\ (loc[v].stage >= 7 /\ cfg.save_agg_nc_maps) =>
                 /\ AxisOf(fs[RateFile(v, S_M)]) = MonthlyRate(v)
                 /\ AxisOf(fs[RateFile(v, S_Y)]) = YearlyRate(v)

\* 6-hour rates that differ from step to step: December has two days and
\* January one, the yearly rate of 2023 is the monthly rate of December
C22_Witness ==
    \E v \in DOMAIN pc :
        /\ NumericDischarge(v) /\ pc[v] = "done" /\ cfg.save_agg_nc_maps
        /\ cfg.input_timestep_hours = 6
        /\ ~Constant(native[v], R(3))
        /\ fs[RateFile(v, S_D)].n = 3 /\ fs[RateFile(v, S_M)].n = 2
        /\ fs[RateFile(v, S_Y)].vals[1] = fs[RateFile(v, S_M)].vals[1]
        /\ fs[RateFile(v, S_M)].vals[1][1]
             = RDiv(RAdd(fs[RateFile(v, S_D)].vals[1][1], fs[RateFile(v, S_D)].vals[2][1]), R(2))

\* the grid files of the discharge branch, in the order of its statements
DischargeWrites(v) ==
    IF ~cfg.save_agg_nc_maps THEN <<>>
    ELSE <<DepthFile(v, S_D), DepthFile(v, S_M), DepthFile(v, S_Y)>>
           \o (IF cfg.input_timestep_hours = 6 THEN <<RateFile(v, S_D)>> ELSE <<>>)
           \o <<RateFile(v, S_M), RateFile(v, S_Y)>>

InDischarge(v) == v \in cfg.discharge_vars /\ loc[v].stage >= 1

\* C23: with grid persistence the depth path writes '<name>_mm.nc' in the
\* daily, monthly and yearly directory, the rate path '<name>.nc' in the
\* monthly and yearly directory and, only after a 6-hour to daily conversion,
\* in the daily directory; no file is written twice; without persistence no
\* grid is written.
C23_DischargeFiles ==
    \A v \in DOMAIN pc :
        InDischarge(v) =>
            /\ IsPrefix(wlog[v], DischargeWrites(v))
            /\ pc[v] = "done" => wlog[v] = DischargeWrites(v)
            /\ \A i, j \in 1..Len(wlog[v]) : i # j => wlog[v][i] # wlog[v][j]
            /\ \A i \in 1..Len(wlog[v]) :
                 wlog[v][i].file \in {loc[v].internal_var_name \o <<"_","m","m",".","n","c">>,
                                      loc[v].internal_var_name \o <<".","n","c">>}
            /\ ~cfg.save_agg_nc_maps => wlog[v] = <<>>

\* daily input with persistence: five files, no un-suffixed daily grid
C23_Witness ==
    \E v \in DOMAIN pc :
        /\ InDischarge(v) /\ pc[v] = "done" /\ cfg.save_agg_nc_maps
        /\ cfg.input_timestep_hours = 24
        /\ Len(wlog[v]) = 5
        /\ RateFile(v, S_D) \notin Range(wlog[v])
        /\ DepthFile(v, S_D) \in Range(wlog[v])

\* the four configuration errors, read off the settings of the run
DtSecIsInteger ==
    /\ "DtSec" \in DOMAIN cfg.binding
    /\ IsIntLiteral(cfg.binding.DtSec)
ConfigurationError ==
    \/ ~cfg.settings_loaded
    \/ cfg.maps_path = "notdir"
    \/ ~DtSecIsInteger
    \/ TimestepSec(cfg.binding).val \notin {21600, 86400}

NoVariableWork ==
    \A v \in DOMAIN pc : pc[v] = "queued" /\ wlog[v] = <<>> /\ loc[v] = NoLocals

\* C24: once main has run its configuration phase, a run whose settings
\* cannot be loaded, whose map-path override is no directory, whose DtSec is
\* no integer or whose timestep is neither 21600 s nor 86400 s has exited with
\* status 1, has called process_variable for no variable and has created no
\* directory, and stays so; a run with no task left after filtering has
\* exited with status 0 and has processed nothing.
C24_ConfigErrorsFatal ==
    /\ mpc.at = "main" => made = {} /\ NoVariableWork
    /\ mpc.at # "main" /\ ConfigurationError =>
         mpc = Main_at("exit", 1) /\ made = {} /\ NoVariableWork
    /\ mpc.at # "main" /\ ~ConfigurationError /\ cfg.tasks = <<>> =>
         mpc = Main_at("exit", 0) /\ NoVariableWork
    /\ mpc.at # "main" /\ ~ConfigurationError /\ cfg.tasks # <<>> =>
         mpc.at # "exit" /\ made = OutputDirs

\* a 3600 s timestep with a variable waiting: exit 1, nothing made
C24_Witness ==
    /\ mpc = Main_at("exit", 1)
    /\ cfg.settings_loaded /\ cfg.maps_path = "dir"
    /\ cfg.binding = [DtSec |-> <<"3","6","0","0">>]
    /\ cfg.tasks = <<VarA>> /\ pc[VarA] = "queued"
    /\ made = {}


-----------------------------------------------------------------------------
(* File discovery: data_loader.py get_lisflood_output_files_and_vars,        *)
(* utils.py ncname2lisname (under SpecDiscovery)                             *)

EndsWith(s, p) == Len(p) <= Len(s) /\ SubSeq(s, Len(s) - Len(p) + 1, Len(s)) = p

\* os.path.basename: what follows the last '/'
basename(p) ==
    IF \E i \in 1..Len(p) : p[i] = "/"
    THEN SubSeq(p, SetMax({i \in 1..Len(p) : p[i] = "/"}) + 1, Len(p))
    ELSE p

\* fnmatch.fnmatch on a POSIX system (case kept): '*' matches any run of
\* characters, '?' one character, every other character itself
RECURSIVE fnmatch(_, _)
fnmatch(name, pat) ==
    IF pat = <<>> THEN name = <<>>
    ELSE IF pat[1] = "*"
         THEN \E k \in 0..Len(name) : fnmatch(SubSeq(name, k + 1, Len(name)), Tail(pat))
    ELSE IF name = <<>> THEN FALSE
    ELSE IF pat[1] = "?" \/ pat[1] = name[1] THEN fnmatch(Tail(name), Tail(pat))
    ELSE FALSE

\* utils.py 37-40: the base name of the binding value without a final '.nc'
BindingPattern(value) ==
    IF EndsWith(basename(value), S_nc)
    THEN SubSeq(basename(value), 1, Len(basename(value)) - 3)
    ELSE basename(value)

\* utils.py 26-55 for a binding of str values, in the order of the dict:
\* the key of the first entry whose pattern matches, '' for None (both are
\* false in `if lisf_var`)
ncname2lisname(nc_filename_base, binding_lisflood) ==
    IF \E k \in 1..Len(binding_lisflood) :
           fnmatch(nc_filename_base, BindingPattern(binding_lisflood[k].value))
    THEN binding_lisflood[SetMin({k \in 1..Len(binding_lisflood) :
             fnmatch(nc_filename_base, BindingPattern(binding_lisflood[k].value))})].key
    ELSE <<>>

\* config.py 65-92
VARS_TO_IGNORE ==
    {<<"T","h","e","t","a","1","E","n","d">>,
     <<"T","h","e","t","a","2","E","n","d">>,
     <<"T","h","e","t","a","3","E","n","d">>,
     <<"U","Z","E","n","d">>,
     <<"L","Z","E","n","d">>,
     <<"D","S","L","R","E","n","d">>,
     <<"W","a","t","e","r","D","e","p","t","h","E","n","d">>,
     <<"O","F","D","i","r","e","c","t","E","n","d">>,
     <<"O","F","O","t","h","e","r","E","n","d">>,
     <<"O","F","F","o","r","e","s","t","E","n","d">>,
     <<"C","h","a","n","C","r","o","s","s","S","e","c","t","i","o","n","E","n","d">>,
     <<"S","n","o","w","C","o","v","e","r","A","E","n","d">>,
     <<"S","n","o","w","C","o","v","e","r","B","E","n","d">>,
     <<"S","n","o","w","C","o","v","e","r","C","E","n","d">>,
     <<"F","r","o","s","t","I","n","d","e","x","E","n","d">>,
     <<"C","u","m","I","n","t","e","r","c","e","p","t","i","o","n","E","n","d">>,
     <<"L","a","k","e","L","e","v","e","l","E","n","d">>,
     <<"L","a","k","e","P","r","e","v","I","n","f","l","o","w","E","n","d">>,
     <<"L","a","k","e","P","r","e","v","O","u","t","f","l","o","w","E","n","d">>,
     <<"L","a","k","e","S","t","o","r","a","g","e","M","3">>,
     <<"R","e","s","e","r","v","o","i","r","F","i","l","l","E","n","d">>,
     <<"C","r","o","s","s","S","e","c","t","i","o","n","2","E","n","d">>,
     <<"C","h","S","i","d","e","E","n","d">>,
     <<"C","h","a","n","Q","E","n","d">>,
     <<"D","i","s","c","h","a","r","g","e","E","n","d">>,
     <<"D","S","L","R","F","o","r","e","s","t","E","n","d">>,
     <<"C","u","m","I","n","t","e","r","c","e","p","t","i","o","n","F","o","r","e","s","t","E","n","d">>,
     <<"T","h","e","t","a","1","F","o","r","e","s","t","E","n","d">>,
     <<"T","h","e","t","a","2","F","o","r","e","s","t","E","n","d">>,
     <<"T","h","e","t","a","3","F","o","r","e","s","t","E","n","d">>,
     <<"U","Z","F","o","r","e","s","t","E","n","d">>,
     <<"C","u","m","I","n","t","S","e","a","l","e","d","E","n","d">>,
     <<"D","S","L","R","I","r","r","i","g","a","t","i","o","n","E","n","d">>,
     <<"C","u","m","I","n","t","e","r","c","e","p","t","i","o","n","I","r","r","i","g","a","t","i","o","n","E","n","d">>,
     <<"T","h","e","t","a","1","I","r","r","i","g","a","t","i","o","n","E","n","d">>,
     <<"T","h","e","t","a","2","I","r","r","i","g","a","t","i","o","n","E","n","d">>,
     <<"T","h","e","t","a","3","I","r","r","i","g","a","t","i","o","n","E","n","d">>,
     <<"U","Z","I","r","r","i","g","a","t","i","o","n","E","n","d">>,
     <<"O","F","D","i","r","e","c","t","I","n","i","t","V","a","l","u","e">>,
     <<"O","F","O","t","h","e","r","I","n","i","t","V","a","l","u","e">>,
     <<"O","F","F","o","r","e","s","t","I","n","i","t","V","a","l","u","e">>,
     <<"S","n","o","w","C","o","v","e","r","A","I","n","i","t","V","a","l","u","e">>,
     <<"S","n","o","w","C","o","v","e","r","B","I","n","i","t","V","a","l","u","e">>,
     <<"S","n","o","w","C","o","v","e","r","C","I","n","i","t","V","a","l","u","e">>,
     <<"F","r","o","s","t","I","n","d","e","x","I","n","i","t","V","a","l","u","e">>,
     <<"C","u","m","I","n","t","I","n","i","t","V","a","l","u","e">>,
     <<"U","Z","I","n","i","t","V","a","l","u","e">>,
     <<"D","S","L","R","I","n","i","t","V","a","l","u","e">>,
     <<"L","Z","I","n","i","t","V","a","l","u","e">>,
     <<"T","o","t","a","l","C","r","o","s","s","S","e","c","t","i","o","n","A","r","e","a","I","n","i","t","V","a","l","u","e">>,
     <<"T","h","e","t","a","I","n","i","t","1","V","a","l","u","e">>,
     <<"T","h","e","t","a","I","n","i","t","2","V","a","l","u","e">>,
     <<"T","h","e","t","a","I","n","i","t","3","V","a","l","u","e">>,
     <<"C","r","o","s","s","S","e","c","t","i","o","n","2","A","r","e","a","I","n","i","t","V","a","l","u","e">>,
     <<"P","r","e","v","S","i","d","e","f","l","o","w","I","n","i","t","V","a","l","u","e">>,
     <<"L","a","k","e","I","n","i","t","i","a","l","L","e","v","e","l","V","a","l","u","e">>,
     <<"L","a","k","e","P","r","e","v","I","n","f","l","o","w","V","a","l","u","e">>,
     <<"L","a","k","e","P","r","e","v","O","u","t","f","l","o","w","V","a","l","u","e">>,
     <<"P","r","e","v","D","i","s","c","h","a","r","g","e">>,
     <<"C","u","m","I","n","t","F","o","r","e","s","t","I","n","i","t","V","a","l","u","e">>,
     <<"U","Z","F","o","r","e","s","t","I","n","i","t","V","a","l","u","e">>,
     <<"D","S","L","R","F","o","r","e","s","t","I","n","i","t","V","a","l","u","e">>,
     <<"T","h","e","t","a","F","o","r","e","s","t","I","n","i","t","1","V","a","l","u","e">>,
     <<"T","h","e","t","a","F","o","r","e","s","t","I","n","i","t","2","V","a","l","u","e">>,
     <<"T","h","e","t","a","F","o","r","e","s","t","I","n","i","t","3","V","a","l","u","e">>,
     <<"C","u","m","I","n","t","I","r","r","i","g","a","t","i","o","n","I","n","i","t","V","a","l","u","e">>,
     <<"U","Z","I","r","r","i","g","a","t","i","o","n","I","n","i","t","V","a","l","u","e">>,
     <<"D","S","L","R","I","r","r","i","g","a","t","i","o","n","I","n","i","t","V","a","l","u","e">>,
     <<"T","h","e","t","a","I","r","r","i","g","a","t","i","o","n","I","n","i","t","1","V","a","l","u","e">>,
     <<"T","h","e","t","a","I","r","r","i","g","a","t","i","o","n","I","n","i","t","2","V","a","l","u","e">>,
     <<"T","h","e","t","a","I","r","r","i","g","a","t","i","o","n","I","n","i","t","3","V","a","l","u","e">>,
     <<"C","u","m","I","n","t","S","e","a","l","e","d","I","n","i","t","V","a","l","u","e">>}

\* data_loader.py 75: glob('*.nc') over the names in the directory (a name
\* with a leading dot is not matched by '*')
GlobNc(listing) == {f \in listing : EndsWith(f, S_nc) /\ f[1] # "."}

\* data_loader.py 79-84: the variable a found file is entered under, '' if none
EnteredAs(f, binding) ==
    IF ncname2lisname(SubSeq(f, 1, Len(f) - 3), binding) \in VARS_TO_IGNORE
    THEN <<>>
    ELSE ncname2lisname(SubSeq(f, 1, Len(f) - 3), binding)

MappedVars(listing, binding) ==
    {EnteredAs(f, binding) : f \in GlobNc(listing)} \ {<<>>}

\* data_loader.py 58-89: the dict is filled in the order glob yields the
\* files, which is not defined: of the files entered under one variable any
\* may be the last and stay
get_lisflood_output_files_and_vars(listing, binding) ==
    {m \in [MappedVars(listing, binding) -> GlobNc(listing)] :
        \A var \in DOMAIN m : EnteredAs(m[var], binding) = var}

\* tests/test_data_loader.py 18-23
MOCK_BINDING ==
    <<[key |-> <<"D","i","s","c","h","a","r","g","e","M","a","p","s">>, value |-> <<"/","p","a","t","h","/","t","o","/","o","u","t","p","u","t","/","t","e","s","t","_","d","i","s","c","h","a","r","g","e",".","n","c">>],
      [key |-> <<"T","o","t","a","l","R","u","n","o","f","f","M","a","p","s">>, value |-> <<"/","p","a","t","h","/","t","o","/","o","u","t","p","u","t","/","t","e","s","t","_","r","u","n","o","f","f",".","n","c">>],
      [key |-> <<"W","a","t","e","r","D","e","p","t","h","S","t","a","t","e">>, value |-> <<"/","p","a","t","h","/","t","o","/","o","u","t","p","u","t","/","t","e","s","t","_","w","a","t","e","r","_","d","e","p","t","h",".","n","c">>],
      [key |-> <<"S","o","m","e","O","t","h","e","r","V","a","r","E","n","d">>, value |-> <<"/","p","a","t","h","/","t","o","/","o","u","t","p","u","t","/","s","o","m","e","o","t","h","e","r","v","a","r",".","e","n","d",".","n","c">>]>>

\* the same with the fourth file bound to a listed end-of-run variable, and
\* a wildcard entry
LISTED_BINDING ==
    <<MOCK_BINDING[1], MOCK_BINDING[2], MOCK_BINDING[3],
      [key |-> <<"C","h","a","n","Q","E","n","d">>, value |-> <<"/","p","a","t","h","/","t","o","/","o","u","t","p","u","t","/","s","o","m","e","o","t","h","e","r","v","a","r",".","e","n","d",".","n","c">>],
      [key |-> <<"T","a","v","g">>, value |-> <<"/","o","u","t","/","t","a","v","g","_","*">>]>>

\* tests/test_data_loader.py 102-106
TestDirectory ==
    {<<"t","e","s","t","_","d","i","s","c","h","a","r","g","e",".","n","c">>, <<"t","e","s","t","_","r","u","n","o","f","f",".","n","c">>, <<"t","e","s","t","_","w","a","t","e","r","_","d","e","p","t","h",".","n","c">>, <<"s","o","m","e","o","t","h","e","r","v","a","r",".","e","n","d",".","n","c">>, <<"n","o","t","_","i","n","_","b","i","n","d","i","n","g",".","n","c">>}

\* names a directory may hold besides
OtherNames ==
    {<<"t","e","s","t","_","r","u","n","o","f","f",".","t","x","t">>, <<"t","a","v","g","_","1",".","n","c">>, <<"t","a","v","g","_","2",".","n","c">>}

InitDiscovery ==
    /\ \E listing \in SUBSET (TestDirectory \cup OtherNames),
          binding \in {MOCK_BINDING, LISTED_BINDING} :
         args = [output_dir |-> listing, binding_lisflood |-> binding]
    /\ out = [tag |-> "none"]
    /\ apc = "ready"
    /\ cfg = <<>> /\ native = <<>> /\ fs = <<>> /\ pc = <<>>
    /\ loc = <<>> /\ wlog = <<>> /\ mpc = "off" /\ made = {}

CallDiscovery ==
    /\ apc = "ready"
    /\ \E m \in get_lisflood_output_files_and_vars(args.output_dir, args.binding_lisflood) :
         out' = Ok(m)
    /\ apc' = "get_lisflood_output_files_and_vars"
    /\ UNCHANGED <<args, runVars>>

NextDiscovery == CallDiscovery

SpecDiscovery == InitDiscovery /\ [][NextDiscovery]_vars

Discovered == apc = "get_lisflood_output_files_and_vars"

\* C26: the mapping holds no variable whose name ends in 'End', and the
\* directory of the test (three ordinary bound files, the file bound to
\* 'SomeOtherVarEnd' and an unbound file) under the test's binding yields
\* exactly the three ordinary entries.
C26_EndVariablesExcluded ==
    Discovered =>
        /\ \A var \in DOMAIN out.val : ~EndsWith(var, <<"E","n","d">>)
        /\ args.output_dir = TestDirectory /\ args.binding_lisflood = MOCK_BINDING =>
             DOMAIN out.val = {<<"D","i","s","c","h","a","r","g","e","M","a","p","s">>, <<"T","o","t","a","l","R","u","n","o","f","f","M","a","p","s">>, <<"W","a","t","e","r","D","e","p","t","h","S","t","a","t","e">>}


\* the series of every resolution of the chain of v are on disk
AllSeriesOnDisk(v) ==
    \A F \in {S_6H, S_D, S_M, S_Y} :
        (F = S_6H => cfg.input_timestep_hours = 6) => SeriesPath(v, F) \in DOMAIN fs

\* C27: in a run over an empty tree in which the process may die between any
\* two statements, for a flux or state variable with grid persistence the
\* yearly grid file is on disk only if the series of every resolution of the
\* chain are; so a later run that finds the yearly grid and ends the
\* variable as done leaves no series missing.
C27_LedgerSound ==
    \A v \in DOMAIN pc :
        (cfg.crash # "never" /\ Standard(v) /\ cfg.save_agg_nc_maps
           /\ loc[v].internal_var_name # <<>>) =>
            /\ GridExists(v, S_Y) => AllSeriesOnDisk(v)
            /\ (cfg.crash = "happened" /\ pc[v] = "done") => AllSeriesOnDisk(v)


\* the grid file the resume check of v selects, if it selects one
SelectedFile(v) ==
    IF GridExists(v, S_M) THEN GridPath(v, S_M) ELSE GridPath(v, S_D)
SelectsFile(v) ==
    /\ ~cfg.overwrite /\ ~GridExists(v, S_Y)
    /\ GridExists(v, S_M) \/ (GridExists(v, S_D) /\ cfg.input_timestep_hours = 6)

\* C28: when the resume check selects a monthly or daily grid file that
\* cannot be loaded, the variable ends failed although its native grid is
\* loaded: nothing has been written, the chain is not entered, and the tree,
\* with the file in it, is as it was, so that the check of a later run sees
\* the same.
C28_UnloadableResumeFile ==
    [][\A v \in DOMAIN pc :
         (Leaves(v, "resume") /\ SelectsFile(v) /\ fs[SelectedFile(v)] = Unreadable) =>
             /\ pc'[v] = "failed"
             /\ loc[v].da_original # NoneDA
             /\ loc'[v].da_current_agg = NoneDA
             /\ ~loc'[v].chained
             /\ wlog'[v] = <<>>
             /\ fs' = fs]_vars

\* 6-hourly input, an unreadable daily grid file: failed, nothing written
C28_Witness ==
    \E v \in DOMAIN pc :
        /\ pc[v] = "failed" /\ Standard(v) /\ ~cfg.overwrite
        /\ cfg.input_timestep_hours = 6
        /\ loc[v].da_original # NoneDA /\ loc[v].da_current_agg = NoneDA
        /\ DOMAIN fs = {GridPath(v, S_D)} /\ fs[GridPath(v, S_D)] = Unreadable
        /\ wlog[v] = <<>>


\* the file of the k-th grid statement of the discharge branch
StageFile(v, k) ==
    IF k <= 3 THEN DepthFile(v, <<S_D, S_M, S_Y>>[k])
    ELSE RateFile(v, <<S_D, S_M, S_Y>>[k - 3])
\* the grid in hand after the k-th statement
StageGrid(l, k) == IF k <= 3 THEN l.da_mm ELSE l.da_current_agg

\* C29: the discharge branch neither consults nor honours the resume state
\* and writes no time series: a discharge variable never passes the resume
\* check or the chain; each grid statement makes its grid from the native
\* input and, with persistence, writes it over whatever the tree holds at
\* that path, with or without overwrite; no series file is written; without
\* persistence the tree stays as it was.
C29_DischargeIgnoresResume ==
    [][\A v \in DOMAIN pc :
         /\ v \in cfg.discharge_vars =>
              /\ pc'[v] \notin {"resume", "series", "aggregate"}
              /\ \A i \in 1..Len(wlog'[v]) :
                    \A F \in {S_6H, S_D, S_M, S_Y} : wlog'[v][i].dir # ts_output_dirs(F).dir
         /\ (pc[v] = "discharge" /\ loc'[v].stage = loc[v].stage + 1) =>
              /\ ~loc'[v].is_resumed /\ ~loc'[v].chained
              /\ StageGrid(loc'[v], loc[v].stage).graph[1] = <<"open", "input">>
              /\ IF cfg.save_agg_nc_maps /\ (loc[v].stage = 4 => cfg.input_timestep_hours = 6)
                 THEN /\ wlog'[v] = Append(wlog[v], StageFile(v, loc[v].stage))
                      /\ fs' = (StageFile(v, loc[v].stage) :> StageGrid(loc'[v], loc[v].stage)) @@ fs
                 ELSE wlog'[v] = wlog[v] /\ fs' = fs]_vars

\* daily input, overwrite off, grids of the same names left by an earlier
\* run: the monthly and yearly rate files are written anew, the daily one is
\* not touched
C29_Witness ==
    \E v \in DOMAIN pc :
        /\ v \in cfg.discharge_vars /\ pc[v] = "done"
        /\ ~cfg.overwrite /\ cfg.save_agg_nc_maps /\ cfg.input_timestep_hours = 24
        /\ Len(wlog[v]) = 5
        /\ RateFile(v, S_D) \in DOMAIN fs
        /\ fs[RateFile(v, S_D)] = EarlierGrid(loc[v].internal_var_name, S_D, "short")
        /\ fs[RateFile(v, S_M)] # EarlierGrid(loc[v].internal_var_name, S_M, "short")
        /\ fs[RateFile(v, S_Y)] = loc[v].da_current_agg

=============================================================================
